---- MODULE Spec2Model ----
(* Partitioned storage engine of gettu (src/storage.py): the sinks that     *)
(* commit a batch through a temporary file, and the compaction passes that   *)
(* merge partition directories.  The directory tree under base_path is the   *)
(* shared state; every file operation of the code is one step, so that a     *)
(* kill, an I/O error or a reader can fall between any two of them.          *)
EXTENDS Integers, Sequences, FiniteSets, TLC

VARIABLES
    partition_granularity,  \* config['storage']['partition_granularity']: "none" | "year" | "year_month"
    base_exists,      \* base_path is a directory
    fs,               \* destination -> [dir, data, backup]: partition dir, data.parquet, data.parquet.backup
    tmp,              \* the NamedTemporaryFile of the commit in progress
    pc,               \* position of the writer
    op,               \* the sink that is running
    lazy_frame,       \* the batch handed to the sink
    todo,             \* partition values the loop has not visited yet
    cur,              \* destination of the commit in progress
    partition_df,     \* rows of the current partition
    backup_path,      \* the local variable backup_path ('backup_path' in locals())
    pre,              \* directory tree when the running call started
    pre_base,         \* base_exists when the running call started
    seen,             \* what a concurrent reader last found at the current destination
    failed_at,        \* the step whose error reached the handler of the current call
    calls,            \* number of sink calls started
    memory_percent,   \* psutil.virtual_memory().percent as the running call read it
    dynamic_threshold,  \* the local dynamic_threshold of the running call
    tmp_dir,          \* the directory that holds the NamedTemporaryFile
    now,              \* int(time.time()), the clock in whole seconds
    stamp,            \* datetime.now() to the microsecond, as a count of distinct readings
    cpc,              \* position of the compaction pass
    cop,              \* the compaction function that was called
    strategy,         \* optimization_strategy, "none" outside optimize_partition_storage
    partitions_to_merge,  \* merge_small_partitions: the small partitions selected
    read_ok,          \* merged_partition_names: the partitions that were read
    merged_df,        \* pl.concat of the frames read
    merged_dir,       \* merged_partition_dir
    to_delete,        \* partitions the delete loop has not visited yet
    partition_dirs,   \* merge_partitions_to_target: the sorted list of partitions
    target_num_partitions,
    large_partitions, \* optimize_partition_storage: large partitions still to recompress
    cpre,             \* directory tree when the compaction call started
    mpre,             \* directory tree when the merge in progress started
    runs,             \* number of compaction calls started
    max_partitions_to_merge,  \* the argument of the merge_small_partitions in progress
    last,             \* the previous compaction call, if it returned normally
    epc,              \* position of EtlRuntime.process_data
    input_df,         \* the DataFrame handed to process_data
    lf,               \* the lazy frame as process_data has transformed it so far
    interface_queues, \* InterfaceTaskManager: tasks queued per interface
    interface_locks,  \* InterfaceTaskManager: the per-interface lock is held
    work_queue,       \* the ThreadPoolExecutor's queue of submitted calls
    threads,          \* what each worker thread of the executor is doing
    results,          \* frames returned by futures that the main thread has not stored yet
    submitted,        \* number of submit_interface_task calls
    stored,           \* batches process_data has stored, per dataset
    lroot,            \* the directories under base_path of the managed dataset
    archived,         \* base_path/archived and what was moved into it
    lnow,             \* datetime.now() of the lifecycle functions, in whole days
    lcall,            \* the last lifecycle or metadata call, its arguments and its day
    lpre,             \* lroot when that call started
    apre,             \* archived when that call started
    result,           \* the result dict of the last manage_partition_lifecycle
    returned,         \* the dict the last manage_partition_metadata returned
    lcalls,           \* number of lifecycle and metadata calls made
    history,          \* performance_history.json of each partition
    arrivals,         \* every measurement handed to update_performance_history
    alert_config,     \* performance_alert_config.json
    pcall,            \* the last monitoring call
    alerts,           \* what the last check_performance_alerts returned
    pcalls,           \* number of monitoring calls made
    partition_strategy_selector,  \* the module's singleton PartitionStrategySelector
    selections        \* the select_strategy calls made, each with what it returned

sinkVars == <<partition_granularity, base_exists, fs, tmp, pc, op, lazy_frame, todo, cur,
              partition_df, backup_path, pre, pre_base, seen, failed_at, calls,
              memory_percent, dynamic_threshold, tmp_dir>>

\* the mode selection of the running call
modeVars == <<memory_percent, dynamic_threshold>>

compVars == <<now, stamp, cpc, cop, strategy, partitions_to_merge, read_ok, merged_df,
              merged_dir, to_delete, partition_dirs, target_num_partitions,
              large_partitions, cpre, mpre, runs, max_partitions_to_merge, last>>

etlVars == <<epc, input_df, lf>>

taskVars == <<interface_queues, interface_locks, work_queue, threads, results, submitted,
              stored>>

lifeVars == <<lroot, archived, lnow, lcall, lpre, apre, result, returned, lcalls>>

perfVars == <<history, arrivals, alert_config, pcall, alerts, pcalls>>

selVars == <<partition_strategy_selector, selections>>

mgmtVars == <<lifeVars, perfVars, selVars>>

\* what the sinks leave alone besides compaction
otherVars == <<etlVars, taskVars, mgmtVars>>

\* what compaction leaves alone
sinkLocals == <<partition_granularity, base_exists, tmp, pc, op, lazy_frame, todo, cur,
                partition_df, backup_path, pre, pre_base, seen, failed_at, calls,
                modeVars, tmp_dir, otherVars>>

vars == <<sinkVars, compVars, etlVars, taskVars, mgmtVars>>

-----------------------------------------------------------------------------
(* Bounds *)

MaxBlocks == 2      \* row blocks per batch
MaxCalls == 3       \* sink calls per behaviour
MaxRuns == 2        \* compaction calls per behaviour
MaxClock == 1       \* seconds the clock may advance
MaxStamp == 3       \* microsecond readings of the clock
MaxWorkers == 2     \* max_workers of the ThreadPoolExecutor
MaxSubmits == 3     \* submit_interface_task calls per behaviour
MaxDay == 1          \* days the lifecycle clock may advance
MaxLifeCalls == 2    \* lifecycle and metadata calls per behaviour
MaxPerfCalls == 3    \* monitoring calls per behaviour
MaxSelects == 2      \* select_strategy calls per behaviour
MaxRace == 1         \* sink calls, and compaction runs, of two racing processes

-----------------------------------------------------------------------------
(* Data *)

Null == 0

\* config.py: STREAMING_THRESHOLD
STREAMING_THRESHOLD == 5000000

\* rows per block: one row, exactly the conservative threshold, or enough
\* rows to pass it
Counts == {1, 1000000, 2000000}

KeysOf(field) == IF field = "year" THEN {2022, 2023} ELSE {202301}

Fields == {"year", "year_month"}

\* A DataFrame is a sequence of row blocks: n consecutive rows with the same key.
Blocks(field) == [key : KeysOf(field) \cup {Null}, n : Counts]

SeqsUpTo(S, n) == UNION {[1..k -> S] : k \in 0..n}

\* batches: up to MaxBlocks single rows, or one block that passes the threshold
Batches(B) == {rows \in SeqsUpTo(B, MaxBlocks) :
                 \/ \A i \in 1..Len(rows) : rows[i].n = 1
                 \/ Len(rows) = 1}

\* cols: the partition column is present
NoColumn == [cols : {FALSE}, rows : Batches([key : {Null}, n : Counts])]

Frames(field) == [cols : {TRUE}, rows : Batches(Blocks(field))] \cup NoColumn

RECURSIVE RowCount(_)
RowCount(rows) == IF rows = <<>> THEN 0 ELSE Head(rows).n + RowCount(Tail(rows))

\* pl.col(col) == val : a comparison with null is null, and filter drops it
KeyEq(k, val) == k # Null /\ val # Null /\ k = val

FilterKey_le(rows, val) == SelectSeq(rows, LAMBDA b : b.key # Null /\ val # Null /\ b.key <= val)

\* df.filter(pl.col(partition_field) == val)
FilterKey(rows, val) == SelectSeq(rows, LAMBDA b : KeyEq(b.key, val))

\* df.select(partition_by).unique()
UniqueKeys(rows) == {rows[i].key : i \in 1..Len(rows)}

\* Files
Absent == [st |-> "absent", rows |-> <<>>]
Partial == [st |-> "partial", rows |-> <<>>]
Whole(rows) == [st |-> "ok", rows |-> rows]
NotLooked == [st |-> "none", rows |-> <<>>]

Exists(f) == f.st # "absent"
Readable(f) == f.st = "ok"

\* Destinations: <field>=<key>/data.parquet and <base_path>.parquet
Unpart == <<"file", 0>>
NoDest == <<"none", 0>>
PartName(field, key) == <<field, key>>
PartNames == UNION {{PartName(f, k) : k \in KeysOf(f)} : f \in Fields}

\* partitions that exist when compaction starts
CompactKeys == {2022, 2023}
CompactParts == {PartName("year", k) : k \in CompactKeys}

\* the same, with a third year
QuietKeys == {2021, 2022, 2023}
QuietParts == {PartName("year", k) : k \in QuietKeys}

\* merged_<int(time.time())> and merged_<%Y%m%d_%H%M%S_%f>
MergedName(t) == <<"merged", t>>
MergedUsName(u) == <<"merged_us", u>>
MergedNames == {MergedName(t) : t \in 0..(MaxClock + 1)} \cup {MergedUsName(u) : u \in 1..(MaxStamp + 1)}

\* year_month partitions of the dates process_data is given
EtlMonths == {202212, 202301}
EtlParts == {PartName("year_month", k) : k \in EtlMonths}

Dests == PartNames \cup CompactParts \cup QuietParts \cup EtlParts \cup MergedNames \cup {Unpart}

NoDir == [dir |-> FALSE, data |-> Absent, backup |-> Absent]

\* config.py: get_dynamic_streaming_threshold
get_dynamic_streaming_threshold(percent) ==
    IF percent > 85 THEN 1000000 ELSE STREAMING_THRESHOLD

MemoryPercents == {50, 90}

\* if sample_row_count > dynamic_threshold: the streaming write
Streams_ge(sample_row_count, threshold) == sample_row_count >= threshold

Streams(sample_row_count, threshold) == sample_row_count > threshold

\* tempfile.gettempdir(): the directory of the system's temporary files
gettempdir == <<"tmp", 0>>

\* tempfile.NamedTemporaryFile(delete=False, suffix='.parquet'): no dir
\* argument, so the file is made in gettempdir() whatever the destination
NamedTemporaryFile(output_dir) == gettempdir

\* LazyFrame.sink_parquet(tmp_file.name)
sink_parquet(rows) == [st |-> "ok", rows |-> rows]

\* DataFrame.write_parquet(tmp_file.name)
write_parquet(rows) == [st |-> "ok", rows |-> rows]

-----------------------------------------------------------------------------
(* The sinks *)

Granularities == {"none", "year", "year_month"}

Ended == {"done", "failed", "crashed"}

CommitSteps == {"write_tmp", "unlink_stale", "rename_backup", "rename_tmp", "unlink_backup"}

Running == CommitSteps \cup {"loop", "handler"}

\* process_data has not been called
EtlIdle ==
    /\ epc = "none"
    /\ input_df = [has |-> FALSE, rows |-> <<>>]
    /\ lf = <<>>

Interfaces == {"daily", "report_rc"}

Workers == 1..MaxWorkers

IdleThread == [at |-> "idle", name |-> "none", page |-> FALSE, out |-> "none"]

\* a fresh InterfaceTaskManager
TasksIdle ==
    /\ interface_queues = [i \in Interfaces |-> 0]
    /\ interface_locks = [i \in Interfaces |-> FALSE]
    /\ work_queue = <<>>
    /\ threads = [w \in Workers |-> IdleThread]
    /\ results = [i \in Interfaces |-> <<>>]
    /\ submitted = 0
    /\ stored = [i \in Interfaces |-> 0]

(* Partition management: the tree that the lifecycle functions walk *)

\* the partitions of the managed dataset
LifeParts == {PartName("year", k) : k \in CompactKeys}

\* backup_<%Y%m%d_%H%M%S>, one name per reading of the clock
BackupName(t) == <<"backup", t>>
BackupNames == {BackupName(t) : t \in 0..MaxDay}

\* the directories base_path.iterdir() can yield besides archived
TopNames == LifeParts \cup BackupNames

\* a created_time that datetime.fromisoformat cannot parse
BadTime == -1

MetaRec(st, created, modified, size, count) ==
    [st |-> st, created_time |-> created, last_modified |-> modified,
     data_file_size |-> size, record_count |-> count]

\* metadata.json: missing, cut short by a write that raised, and the {} that
\* manage_partition_metadata returns
NoMeta == MetaRec("absent", 0, 0, 0, 0)
TornMeta == MetaRec("torn", 0, 0, 0, 0)
EmptyDict == MetaRec("empty", 0, 0, 0, 0)

\* a partition directory inside a backup
NoLeaf == [dir |-> FALSE, data |-> Absent, meta |-> NoMeta]
Leaf(d) == [dir |-> d.dir, data |-> d.data, meta |-> d.meta]
NoSub == [p \in LifeParts |-> NoLeaf]

\* a directory under base_path
NoTop == [dir |-> FALSE, data |-> Absent, meta |-> NoMeta, sub |-> NoSub]

\* base_path/archived
NoArchive == [dir |-> FALSE, meta |-> NoMeta, sub |-> [e \in TopNames |-> NoTop]]

NoLifeCall == [op |-> "none", name |-> NoDest, retention_days |-> 0,
               metadata |-> [has |-> FALSE, created_time |-> 0], at |-> 0]

NoResult == [errors |-> {}, affected_partitions |-> 0]

\* no lifecycle or metadata call has been made
LifeIdle ==
    /\ lroot = [e \in TopNames |-> NoTop]
    /\ archived = NoArchive
    /\ lnow = 0
    /\ lcall = NoLifeCall
    /\ lpre = lroot
    /\ apre = archived
    /\ result = NoResult
    /\ returned = EmptyDict
    /\ lcalls = 0

\* performance_history.json
NoHistory == [st |-> "absent", entries |-> <<>>]

\* performance_alert_config.json
NoConfig == [st |-> "absent", threshold_ms |-> 0, enabled |-> FALSE]

NoPerfCall == [op |-> "none", name |-> NoDest, at |-> 0]

\* no monitoring call has been made
PerfIdle ==
    /\ history = [p \in LifeParts |-> NoHistory]
    /\ arrivals = [p \in LifeParts |-> <<>>]
    /\ alert_config = NoConfig
    /\ pcall = NoPerfCall
    /\ alerts = {}
    /\ pcalls = 0

\* get_partition_strategy_selector has not been called
NoSelector == [made |-> FALSE, data_type_strategy_map |-> [dt \in {} |-> "NONE"]]

SelIdle ==
    /\ partition_strategy_selector = NoSelector
    /\ selections = <<>>

MgmtIdle == LifeIdle /\ PerfIdle /\ SelIdle

\* no sink call is running
WriterIdle ==
    /\ tmp = Absent
    /\ pc = "idle"
    /\ op = "none"
    /\ lazy_frame = [cols |-> FALSE, rows |-> <<>>]
    /\ todo = {}
    /\ cur = NoDest
    /\ partition_df = <<>>
    /\ backup_path = NoDest
    /\ pre = fs
    /\ pre_base = base_exists
    /\ seen = NotLooked
    /\ failed_at = "none"
    /\ calls = 0
    /\ memory_percent = 0
    /\ dynamic_threshold = 0
    /\ tmp_dir = NoDest

\* no compaction call has returned yet
NoCall == [cop |-> "none", strategy |-> "none", max |-> 0]

\* no compaction call is running
CompIdle ==
    /\ now = 0
    /\ stamp = 0
    /\ cpc = "idle"
    /\ cop = "none"
    /\ strategy = "none"
    /\ partitions_to_merge = {}
    /\ read_ok = {}
    /\ merged_df = <<>>
    /\ merged_dir = NoDest
    /\ to_delete = {}
    /\ partition_dirs = <<>>
    /\ target_num_partitions = 0
    /\ large_partitions = {}
    /\ cpre = fs
    /\ mpre = fs
    /\ runs = 0
    /\ max_partitions_to_merge = 0
    /\ last = NoCall

SinkInit ==
    /\ partition_granularity \in Granularities
    /\ base_exists = FALSE
    /\ fs = [d \in Dests |-> NoDir]
    /\ tmp = Absent
    /\ pc = "idle"
    /\ op = "none"
    /\ lazy_frame = [cols |-> FALSE, rows |-> <<>>]
    /\ todo = {}
    /\ cur = NoDest
    /\ partition_df = <<>>
    /\ backup_path = NoDest
    /\ pre = fs
    /\ pre_base = FALSE
    /\ seen = NotLooked
    /\ failed_at = "none"
    /\ calls = 0
    /\ memory_percent = 0
    /\ dynamic_threshold = 0
    /\ tmp_dir = NoDest
    /\ CompIdle
    /\ EtlIdle
    /\ TasksIdle
    /\ MgmtIdle

\* entry of every sink: fresh locals, and the tree as the call finds it
Enter(name, frame) ==
    /\ pc = "idle"
    /\ calls < MaxCalls
    /\ calls' = calls + 1
    /\ op' = name
    /\ lazy_frame' = frame
    /\ pre' = fs
    /\ pre_base' = base_exists
    /\ backup_path' = NoDest
    /\ cur' = NoDest
    /\ partition_df' = <<>>
    /\ seen' = NotLooked
    /\ failed_at' = "none"
    /\ tmp' = Absent
    /\ tmp_dir' = NoDest
    /\ UNCHANGED <<taskVars, mgmtVars, compVars, partition_granularity, fs>>

\* the column check of the collect-then-write path comes before base_path.mkdir
MissingColumnCheck(frame) ==
    IF ~frame.cols
    THEN /\ pc' = "failed"
         /\ todo' = {}
         /\ UNCHANGED base_exists
    ELSE /\ pc' = "loop"
         /\ todo' = UniqueKeys(frame.rows)
         /\ base_exists' = TRUE

\* _streaming_partitioned_sink makes base_path first; the select of the
\* missing column raises afterwards
StreamingEntry(frame) ==
    /\ base_exists' = TRUE
    /\ IF ~frame.cols
       THEN pc' = "failed" /\ todo' = {}
       ELSE pc' = "loop" /\ todo' = UniqueKeys(frame.rows)

\* dynamic_threshold = get_dynamic_streaming_threshold(), and the branch on
\* sample_row_count
atomic_partitioned_sink ==
    /\ partition_granularity # "none"
    /\ \E frame \in Frames(partition_granularity), percent \in MemoryPercents :
          /\ memory_percent' = percent
          /\ dynamic_threshold' = get_dynamic_streaming_threshold(percent)
          /\ IF Streams(RowCount(frame.rows), dynamic_threshold')
             THEN Enter("_streaming_partitioned_sink", frame) /\ StreamingEntry(frame)
             ELSE Enter("atomic_partitioned_sink", frame) /\ MissingColumnCheck(frame)
    /\ UNCHANGED etlVars

enhanced_yearly_partitioned_sink ==
    /\ partition_granularity = "year"
    /\ \E frame \in Frames("year") :
          /\ Enter("enhanced_yearly_partitioned_sink", frame)
          /\ MissingColumnCheck(frame)
    /\ UNCHANGED <<etlVars, modeVars>>

enhanced_monthly_partitioned_sink ==
    /\ partition_granularity = "year_month"
    /\ \E frame \in Frames("year_month") :
          /\ Enter("enhanced_monthly_partitioned_sink", frame)
          /\ MissingColumnCheck(frame)
    /\ UNCHANGED <<etlVars, modeVars>>

\* dynamic_threshold = get_dynamic_streaming_threshold(), output_dir.mkdir,
\* then the NamedTemporaryFile; one commit, no loop
atomic_unpartitioned_sink ==
    /\ partition_granularity = "none"
    /\ \E frame \in NoColumn, percent \in MemoryPercents :
          /\ memory_percent' = percent
          /\ dynamic_threshold' = get_dynamic_streaming_threshold(percent)
          /\ pc = "idle"
          /\ calls < MaxCalls
          /\ calls' = calls + 1
          /\ op' = "atomic_unpartitioned_sink"
          /\ lazy_frame' = frame
          /\ pre' = fs
          /\ pre_base' = base_exists
          /\ backup_path' = NoDest
          /\ cur' = Unpart
          /\ partition_df' = frame.rows
          /\ seen' = NotLooked
          /\ failed_at' = "none"
          /\ fs' = [fs EXCEPT ![Unpart].dir = TRUE]
          /\ tmp' = Partial
          /\ tmp_dir' = NamedTemporaryFile(Unpart)
          /\ todo' = {}
          /\ pc' = "write_tmp"
          /\ UNCHANGED <<otherVars, compVars, partition_granularity, base_exists>>

PartitionedOps == {"atomic_partitioned_sink", "_streaming_partitioned_sink",
                   "enhanced_yearly_partitioned_sink", "enhanced_monthly_partitioned_sink"}

\* one pass of the loop over the unique partition values: filter, skip an
\* empty group, else mkdir the partition directory and open the temp file
PartitionLoop ==
    /\ pc = "loop"
    /\ IF todo = {}
       THEN /\ pc' = "done"
            /\ cur' = NoDest
            /\ UNCHANGED <<fs, tmp, tmp_dir, todo, partition_df, seen>>
       ELSE \E val \in todo :
              LET df == FilterKey(lazy_frame.rows, val)
                  d == PartName(partition_granularity, val)
              IN  IF RowCount(df) = 0
                  THEN /\ todo' = todo \ {val}
                       /\ UNCHANGED <<fs, tmp, tmp_dir, pc, cur, partition_df, seen>>
                  ELSE /\ todo' = todo \ {val}
                       /\ cur' = d
                       /\ partition_df' = df
                       /\ fs' = [fs EXCEPT ![d].dir = TRUE]
                       /\ tmp' = Partial
                       /\ tmp_dir' = NamedTemporaryFile(d)
                       /\ seen' = NotLooked
                       /\ pc' = "write_tmp"
    /\ UNCHANGED <<otherVars, compVars, modeVars, partition_granularity, base_exists, op, lazy_frame, backup_path,
                   pre, pre_base, failed_at, calls>>

\* the running call writes its temp file with sink_parquet
Streaming ==
    \/ op = "_streaming_partitioned_sink"
    \/ op = "atomic_unpartitioned_sink"
         /\ Streams(RowCount(lazy_frame.rows), dynamic_threshold)

\* what follows a commit: the next partition, or the end of the call
AfterCommit == IF op \in PartitionedOps THEN "loop" ELSE "done"

\* partition_df.write_parquet(tmp_file.name), then: if output_path.exists()
WriteTmp ==
    /\ pc = "write_tmp"
    /\ tmp' = IF Streaming
              THEN sink_parquet(partition_df)
              ELSE write_parquet(partition_df)
    /\ IF Exists(fs[cur].data)
       THEN /\ backup_path' = cur
            /\ pc' = IF Exists(fs[cur].backup) THEN "unlink_stale" ELSE "rename_backup"
       ELSE /\ pc' = "rename_tmp"
            /\ UNCHANGED backup_path
    /\ UNCHANGED <<otherVars, compVars, modeVars, tmp_dir, partition_granularity, base_exists, fs, op, lazy_frame, todo, cur,
                   partition_df, pre, pre_base, seen, failed_at, calls>>

\* if backup_path.exists(): backup_path.unlink()
UnlinkStale ==
    /\ pc = "unlink_stale"
    /\ fs' = [fs EXCEPT ![cur].backup = Absent]
    /\ pc' = "rename_backup"
    /\ UNCHANGED <<otherVars, compVars, modeVars, tmp_dir, partition_granularity, base_exists, tmp, op, lazy_frame, todo, cur,
                   partition_df, backup_path, pre, pre_base, seen, failed_at, calls>>

RenameToBackup_unlink(dir) == [dir EXCEPT !.data = Absent]

\* output_path.rename(backup_path)
RenameToBackup(dir) == [dir EXCEPT !.backup = dir.data, !.data = Absent]

RenameBackup ==
    /\ pc = "rename_backup"
    /\ fs[cur].dir
    /\ fs' = [fs EXCEPT ![cur] = RenameToBackup(fs[cur])]
    /\ pc' = "rename_tmp"
    /\ UNCHANGED <<otherVars, compVars, modeVars, tmp_dir, partition_granularity, base_exists, tmp, op, lazy_frame, todo, cur,
                   partition_df, backup_path, pre, pre_base, seen, failed_at, calls>>

\* 'backup_path' in locals() and backup_path.exists()
BackupLeft(tree) == backup_path # NoDest /\ Exists(tree[backup_path].backup)

\* Path(tmp_file.name).rename(output_path)
RenameTmp ==
    /\ pc = "rename_tmp"
    /\ fs[cur].dir
    /\ fs' = [fs EXCEPT ![cur].data = tmp]
    /\ tmp' = Absent
    /\ pc' = IF BackupLeft(fs') THEN "unlink_backup" ELSE AfterCommit
    /\ UNCHANGED <<otherVars, compVars, modeVars, tmp_dir, partition_granularity, base_exists, op, lazy_frame, todo, cur,
                   partition_df, backup_path, pre, pre_base, seen, failed_at, calls>>

\* backup_path.unlink()
UnlinkBackup ==
    /\ pc = "unlink_backup"
    /\ fs[cur].dir
    /\ fs' = [fs EXCEPT ![backup_path].backup = Absent]
    /\ pc' = AfterCommit
    /\ UNCHANGED <<otherVars, compVars, modeVars, tmp_dir, partition_granularity, base_exists, tmp, op, lazy_frame, todo, cur,
                   partition_df, backup_path, pre, pre_base, seen, failed_at, calls>>

\* a file operation of the commit raises: control goes to the except clause
StepFails ==
    /\ pc \in CommitSteps
    /\ failed_at' = pc
    /\ pc' = "handler"
    /\ UNCHANGED <<otherVars, compVars, modeVars, tmp_dir, partition_granularity, base_exists, fs, tmp, op, lazy_frame, todo, cur,
                   partition_df, backup_path, pre, pre_base, seen, calls>>

CleanTmp_keep(t) == t

\* if Path(tmp_file.name).exists(): Path(tmp_file.name).unlink()
CleanTmp(t) == Absent

\* the tree put back as the call found it
Handler_rollback ==
    /\ pc = "handler"
    /\ tmp' = CleanTmp(tmp)
    /\ fs' = pre
    /\ pc' = "failed"
    /\ UNCHANGED <<otherVars, compVars, modeVars, tmp_dir, partition_granularity, base_exists, op, lazy_frame, todo, cur,
                   partition_df, backup_path, pre, pre_base, seen, failed_at, calls>>

\* except Exception: delete the temp file, log, raise
Handler ==
    /\ pc = "handler"
    /\ tmp' = CleanTmp(tmp)
    /\ pc' = "failed"
    /\ UNCHANGED <<otherVars, compVars, modeVars, tmp_dir, partition_granularity, base_exists, fs, op, lazy_frame, todo, cur,
                   partition_df, backup_path, pre, pre_base, seen, failed_at, calls>>

\* the process is killed
Kill ==
    /\ pc \in Running
    /\ pc' = "crashed"
    /\ UNCHANGED <<otherVars, compVars, modeVars, tmp_dir, partition_granularity, base_exists, fs, tmp, op, lazy_frame, todo, cur,
                   partition_df, backup_path, pre, pre_base, seen, failed_at, calls>>

\* a reader of the destination that is being committed
ReaderLooks ==
    /\ pc \in CommitSteps
    /\ seen = NotLooked
    /\ seen' = fs[cur].data
    /\ UNCHANGED <<otherVars, compVars, modeVars, tmp_dir, partition_granularity, base_exists, fs, tmp, pc, op, lazy_frame, todo, cur,
                   partition_df, backup_path, pre, pre_base, failed_at, calls>>

\* the call has returned, raised or died; the caller (or a restarted
\* process) is free to call again
Return ==
    /\ pc \in Ended
    /\ pc' = "idle"
    /\ op' = "none"
    /\ lazy_frame' = [cols |-> FALSE, rows |-> <<>>]
    /\ todo' = {}
    /\ cur' = NoDest
    /\ partition_df' = <<>>
    /\ backup_path' = NoDest
    /\ tmp' = Absent
    /\ pre' = fs
    /\ pre_base' = base_exists
    /\ seen' = NotLooked
    /\ failed_at' = "none"
    /\ memory_percent' = 0
    /\ dynamic_threshold' = 0
    /\ tmp_dir' = NoDest
    /\ UNCHANGED <<otherVars, compVars, partition_granularity, base_exists, fs, calls>>

-----------------------------------------------------------------------------
(* Compaction *)

MB == 1048576

\* bytes a row takes in a data file
BytesPerRow == 16

\* data_file.stat().st_size; a torn file has lost its rows
FileSize(f) == IF Readable(f) THEN RowCount(f.rows) * BytesPerRow ELSE 0

\* check_partition_sizes: the directories under base_path that hold data.parquet
check_partition_sizes(tree) == {d \in Dests \ {Unpart} : tree[d].dir /\ Exists(tree[d].data)}

\* Path order: "merged_1..." < "merged_2026..." < "year=..."
KindRank(d) == CASE d[1] = "merged" -> 0 [] d[1] = "merged_us" -> 1 [] OTHER -> 2

Before(a, b) == KindRank(a) < KindRank(b) \/ (KindRank(a) = KindRank(b) /\ a[2] < b[2])

\* partition_dirs.sort()
RECURSIVE SortDirs(_)
SortDirs(S) ==
    IF S = {} THEN <<>>
    ELSE LET m == CHOOSE x \in S : \A y \in S \ {x} : Before(x, y)
         IN  <<m>> \o SortDirs(S \ {m})

Concat_first(tree, ds) == IF ds = <<>> THEN <<>> ELSE tree[Head(ds)].data.rows

\* pl.concat of the frames read from the listed partitions
RECURSIVE Concat(_, _)
Concat(tree, ds) ==
    IF ds = <<>> THEN <<>> ELSE tree[Head(ds)].data.rows \o Concat(tree, Tail(ds))

Min(a, b) == IF a < b THEN a ELSE b
Max(a, b) == IF a > b THEN a ELSE b

MergeOps == {"merge_small_partitions", "merge_partitions_to_target"}

Strategies == {"auto", "compress", "merge", "repartition"}

\* max_partitions_to_merge: the default, and a smaller cap
MaxToMerge == {2, 10}

\* target_num_partitions of a direct call
Targets == {1, 2}

\* a partition written by a sink: one row, or above the 50MB mark
SmallFile(k) == Whole(<<[key |-> k, n |-> 1]>>)
LargeFile(k) == Whole(<<[key |-> k, n |-> 4000000]>>)

\* a partitioned dataset before compaction: each of the given partitions is
\* missing, small or large
Dataset(parts) ==
    /\ partition_granularity = "year"
    /\ base_exists = TRUE
    /\ \E layout \in [parts -> {"none", "small", "large"}] :
         fs = [d \in Dests |->
                 IF d \in parts /\ layout[d] # "none"
                 THEN [dir |-> TRUE,
                       data |-> IF layout[d] = "small" THEN SmallFile(d[2]) ELSE LargeFile(d[2]),
                       backup |-> Absent]
                 ELSE NoDir]
    /\ tmp = Absent
    /\ pc = "idle"
    /\ op = "none"
    /\ lazy_frame = [cols |-> FALSE, rows |-> <<>>]
    /\ todo = {}
    /\ cur = NoDest
    /\ partition_df = <<>>
    /\ backup_path = NoDest
    /\ pre = fs
    /\ pre_base = TRUE
    /\ seen = NotLooked
    /\ failed_at = "none"
    /\ calls = 0
    /\ memory_percent = 0
    /\ dynamic_threshold = 0
    /\ tmp_dir = NoDest
    /\ CompIdle
    /\ EtlIdle
    /\ TasksIdle
    /\ MgmtIdle

CompInit == Dataset(CompactParts)

QuietInit == Dataset(QuietParts)

\* a call from the caller: fresh locals, and the tree as the call finds it
Call(name, strat) ==
    /\ cpc = "idle"
    /\ runs < MaxRuns
    /\ runs' = runs + 1
    /\ cop' = name
    /\ strategy' = strat
    /\ cpre' = fs

\* where optimize_partition_storage goes on when a pass of it has returned
AfterMerge == IF strategy = "auto" THEN "o_compress" ELSE "done"
AfterCompress == IF strategy = "auto" THEN "o_repartition" ELSE "done"

\* merge_small_partitions up to the mkdir of the merged directory: scan,
\* select, read what can be read, concat, name the output after the clock
MergeSmallBody(cap, after) ==
    LET small == {d \in check_partition_sizes(fs) : FileSize(fs[d].data) < 10 * MB}
    IN  IF Cardinality(small) < 2
        THEN /\ cpc' = after
             /\ UNCHANGED <<fs, partitions_to_merge, read_ok, merged_df, merged_dir,
                            to_delete, mpre>>
        ELSE \E sel \in SUBSET small :
               /\ Cardinality(sel) = Min(cap, Cardinality(small))
               /\ LET ok == {d \in sel : Readable(fs[d].data)}
                  IN  IF ok = {}
                      THEN /\ cpc' = after
                           /\ UNCHANGED <<fs, partitions_to_merge, read_ok, merged_df,
                                          merged_dir, to_delete, mpre>>
                      ELSE /\ partitions_to_merge' = sel
                           /\ read_ok' = ok
                           /\ merged_df' = Concat(fs, SortDirs(ok))
                           /\ merged_dir' = MergedName(now)
                           /\ fs' = [fs EXCEPT ![MergedName(now)].dir = TRUE]
                           /\ mpre' = fs
                           /\ to_delete' = sel
                           /\ cpc' = "ms_write"

merge_small_partitions ==
    /\ \E m \in MaxToMerge :
         /\ Call("merge_small_partitions", "none")
         /\ max_partitions_to_merge' = m
         /\ MergeSmallBody(m, "done")
    /\ UNCHANGED <<now, stamp, partition_dirs, target_num_partitions, large_partitions>>
    /\ UNCHANGED <<sinkLocals, last>>

\* merged_df.write_parquet(output_path)
MergeWrite ==
    /\ cpc \in {"ms_write", "mt_write"}
    /\ fs' = [fs EXCEPT ![merged_dir].data = Whole(merged_df)]
    /\ cpc' = IF cpc = "ms_write" THEN "ms_delete" ELSE "mt_rm1"
    /\ UNCHANGED <<now, stamp, cop, strategy, partitions_to_merge, read_ok, merged_df,
                   merged_dir, to_delete, partition_dirs, target_num_partitions,
                   large_partitions, cpre, mpre, runs>>
    /\ UNCHANGED <<sinkLocals, max_partitions_to_merge, last>>

\* the write raises, or the process is killed, with the file half written
MergeWriteTorn ==
    /\ cpc \in {"ms_write", "mt_write"}
    /\ fs' = [fs EXCEPT ![merged_dir].data = Partial]
    /\ cpc' \in {"failed", "crashed"}
    /\ UNCHANGED <<now, stamp, cop, strategy, partitions_to_merge, read_ok, merged_df,
                   merged_dir, to_delete, partition_dirs, target_num_partitions,
                   large_partitions, cpre, mpre, runs>>
    /\ UNCHANGED <<sinkLocals, max_partitions_to_merge, last>>

DeleteTargets_read == read_ok

\* for partition_path, _ in partitions_to_merge: shutil.rmtree(partition_path)
DeleteTargets == partitions_to_merge

\* one pass of the delete loop; after the loop, output_path.stat()
MergeSmallDelete ==
    /\ cpc = "ms_delete"
    /\ LET left == to_delete \cap DeleteTargets
       IN  IF left = {}
           THEN /\ cpc' = IF Exists(fs[merged_dir].data) THEN AfterMerge ELSE "failed"
                /\ UNCHANGED <<fs, to_delete>>
           ELSE LET d == Head(SortDirs(left))
                IN
                  /\ to_delete' = to_delete \ {d}
                  /\ fs' \in {[fs EXCEPT ![d] = NoDir], fs}
                  /\ UNCHANGED cpc
    /\ UNCHANGED <<now, stamp, cop, strategy, partitions_to_merge, read_ok, merged_df,
                   merged_dir, partition_dirs, target_num_partitions, large_partitions,
                   cpre, mpre, runs>>
    /\ UNCHANGED <<sinkLocals, max_partitions_to_merge, last>>

\* merge_partitions_to_target up to the loop
MergeToTargetBody(target) ==
    LET dirs == SortDirs(check_partition_sizes(fs))
    IN  /\ target_num_partitions' = target
        /\ IF Len(dirs) <= target
           THEN cpc' = "done" /\ UNCHANGED partition_dirs
           ELSE cpc' = "mt_loop" /\ partition_dirs' = dirs

merge_partitions_to_target ==
    /\ \E target \in Targets :
         /\ Call("merge_partitions_to_target", "none")
         /\ MergeToTargetBody(target)
    /\ UNCHANGED <<fs, now, stamp, partitions_to_merge, read_ok, merged_df, merged_dir,
                   to_delete, large_partitions, mpre>>
    /\ UNCHANGED <<sinkLocals, max_partitions_to_merge, last>>

\* int(total_size / (target_partition_size_mb * 1024 * 1024)), at least 1
TargetFor(tree, target_partition_size_mb) ==
    LET sizes == check_partition_sizes(tree)
        RECURSIVE Total(_)
        Total(S) == IF S = {} THEN 0
                    ELSE LET d == CHOOSE x \in S : TRUE
                         IN  FileSize(tree[d].data) + Total(S \ {d})
    IN  Max(1, Total(sizes) \div (target_partition_size_mb * MB))

\* repartition_optimization with the default target of 100MB
RepartitionBody ==
    IF Cardinality(check_partition_sizes(fs)) <= TargetFor(fs, 100)
    THEN cpc' = "done" /\ UNCHANGED <<partition_dirs, target_num_partitions>>
    ELSE MergeToTargetBody(TargetFor(fs, 100))

repartition_optimization ==
    /\ Call("repartition_optimization", "none")
    /\ RepartitionBody
    /\ UNCHANGED <<fs, now, stamp, partitions_to_merge, read_ok, merged_df, merged_dir,
                   to_delete, large_partitions, mpre>>
    /\ UNCHANGED <<sinkLocals, max_partitions_to_merge, last>>

\* while len(partition_dirs) > target: read the first two, concat, name the
\* output after the clock, mkdir
MergeToTargetLoop ==
    /\ cpc = "mt_loop"
    /\ IF Len(partition_dirs) <= target_num_partitions
       THEN /\ cpc' = "done"
            /\ UNCHANGED <<fs, stamp, read_ok, merged_df, merged_dir, partition_dirs, mpre>>
       ELSE LET p1 == partition_dirs[1]
                p2 == partition_dirs[2]
            IN  IF ~(Exists(fs[p1].data) /\ Exists(fs[p2].data))
                THEN /\ partition_dirs' = SelectSeq(partition_dirs, LAMBDA x : x \notin {p1, p2})
                     /\ UNCHANGED <<fs, stamp, cpc, read_ok, merged_df, merged_dir, mpre>>
                ELSE IF ~(Readable(fs[p1].data) /\ Readable(fs[p2].data))
                THEN /\ cpc' = "failed"
                     /\ read_ok' = {p1, p2}
                     /\ mpre' = fs
                     /\ UNCHANGED <<fs, stamp, merged_df, merged_dir, partition_dirs>>
                ELSE /\ stamp < MaxStamp
                     /\ stamp' = stamp + 1
                     /\ read_ok' = {p1, p2}
                     /\ merged_df' = Concat(fs, <<p1, p2>>)
                     /\ merged_dir' = MergedUsName(stamp')
                     /\ fs' = [fs EXCEPT ![MergedUsName(stamp')].dir = TRUE]
                     /\ mpre' = fs
                     /\ cpc' = "mt_write"
                     /\ UNCHANGED partition_dirs
    /\ UNCHANGED <<now, cop, strategy, partitions_to_merge, to_delete,
                   target_num_partitions, large_partitions, cpre, runs>>
    /\ UNCHANGED <<sinkLocals, max_partitions_to_merge, last>>

\* shutil.rmtree(partition_1); shutil.rmtree(partition_2); an error is not caught
MergeToTargetRemove ==
    /\ cpc \in {"mt_rm1", "mt_rm2"}
    /\ LET p == IF cpc = "mt_rm1" THEN partition_dirs[1] ELSE partition_dirs[2]
       IN  \/ /\ fs' = [fs EXCEPT ![p] = NoDir]
              /\ IF cpc = "mt_rm1"
                 THEN cpc' = "mt_rm2" /\ UNCHANGED partition_dirs
                 ELSE /\ cpc' = "mt_loop"
                      /\ partition_dirs' =
                           SortDirs({partition_dirs[i] : i \in 3..Len(partition_dirs)}
                                    \cup {merged_dir})
           \/ /\ cpc' = "failed"
              /\ UNCHANGED <<fs, partition_dirs>>
    /\ UNCHANGED <<now, stamp, cop, strategy, partitions_to_merge, read_ok, merged_df,
                   merged_dir, to_delete, target_num_partitions, large_partitions,
                   cpre, mpre, runs>>
    /\ UNCHANGED <<sinkLocals, max_partitions_to_merge, last>>

\* the consecutive pairs of the sorted list whose keys differ by one and whose
\* data files both exist below 5MB
AdjacentPairs(tree, dirs) ==
    {<<dirs[i], dirs[i + 1]>> : i \in {j \in 1..(Len(dirs) - 1) :
        /\ dirs[j + 1][2] - dirs[j][2] = 1
        /\ Exists(tree[dirs[j]].data) /\ Exists(tree[dirs[j + 1]].data)
        /\ FileSize(tree[dirs[j]].data) < 5 * MB
        /\ FileSize(tree[dirs[j + 1]].data) < 5 * MB}}

ConsiderMerging_merge(tree, pairs) ==
    [d \in Dests |->
        IF \E pr \in pairs : pr[2] = d THEN NoDir
        ELSE IF \E pr \in pairs : pr[1] = d
        THEN LET pr == CHOOSE q \in pairs : q[1] = d
             IN  [tree[d] EXCEPT !.data = Whole(tree[d].data.rows \o tree[pr[2]].data.rows)]
        ELSE tree[d]]

\* what the loop does with a candidate pair: logging.debug, and nothing else
ConsiderMerging(tree, pairs) == tree

\* merge_adjacent_partitions(base_path, partition_field)
merge_adjacent_partitions ==
    /\ Call("merge_adjacent_partitions", "none")
    /\ LET dirs == SortDirs({d \in Dests : d[1] = partition_granularity /\ fs[d].dir})
       IN  /\ partition_dirs' = dirs
           /\ fs' = IF Len(dirs) < 2 THEN fs
                    ELSE ConsiderMerging(fs, AdjacentPairs(fs, dirs))
    /\ cpc' = "done"
    /\ UNCHANGED <<now, stamp, partitions_to_merge, read_ok, merged_df, merged_dir,
                   to_delete, target_num_partitions, large_partitions, mpre>>
    /\ UNCHANGED <<sinkLocals, max_partitions_to_merge, last>>

\* optimize_partition_storage: the sizes are read once, before the passes
optimize_partition_storage ==
    /\ \E strat \in Strategies :
         /\ Call("optimize_partition_storage", strat)
         /\ large_partitions' = {d \in check_partition_sizes(fs) : FileSize(fs[d].data) > 50 * MB}
         /\ cpc' = CASE strat \in {"auto", "merge"} -> "o_merge"
                     [] strat = "compress" -> "o_compress"
                     [] OTHER -> "o_repartition"
    /\ UNCHANGED <<fs, now, stamp, partitions_to_merge, read_ok, merged_df, merged_dir,
                   to_delete, partition_dirs, target_num_partitions, mpre>>
    /\ UNCHANGED <<sinkLocals, max_partitions_to_merge, last>>

\* merge_small_partitions(base_path, size_threshold_mb=10.0)
OptimizeMerge ==
    /\ cpc = "o_merge"
    /\ MergeSmallBody(10, AfterMerge)
    /\ UNCHANGED <<now, stamp, cop, strategy, partition_dirs, target_num_partitions,
                   large_partitions, cpre, runs>>
    /\ max_partitions_to_merge' = 10
    /\ UNCHANGED <<sinkLocals, last>>

Rewrite_same(f) == f

\* df = pl.read_parquet(data_file); df.write_parquet(data_file): whole, or
\* torn when the write raises or the process dies in it
Rewrite(f) == {Whole(f.rows), Partial}

\* the recompression loop; an error is logged and the loop goes on
OptimizeCompress ==
    /\ cpc = "o_compress"
    /\ IF large_partitions = {}
       THEN /\ cpc' = AfterCompress
            /\ UNCHANGED <<fs, large_partitions>>
       ELSE \E d \in large_partitions :
              /\ large_partitions' = large_partitions \ {d}
              /\ IF Readable(fs[d].data)
                 THEN \E f \in Rewrite(fs[d].data) :
                        /\ fs' = [fs EXCEPT ![d].data = f]
                        /\ cpc' \in IF f = Partial THEN {cpc, "crashed"} ELSE {cpc}
                 ELSE UNCHANGED <<fs, cpc>>
    /\ UNCHANGED <<now, stamp, cop, strategy, partitions_to_merge, read_ok, merged_df,
                   merged_dir, to_delete, partition_dirs, target_num_partitions,
                   cpre, mpre, runs>>
    /\ UNCHANGED <<sinkLocals, max_partitions_to_merge, last>>

\* repartition_optimization(base_path)
OptimizeRepartition ==
    /\ cpc = "o_repartition"
    /\ RepartitionBody
    /\ UNCHANGED <<fs, now, stamp, cop, strategy, partitions_to_merge, read_ok, merged_df,
                   merged_dir, to_delete, large_partitions, cpre, mpre, runs>>
    /\ UNCHANGED <<sinkLocals, max_partitions_to_merge, last>>

CompRunning == {"ms_write", "ms_delete", "mt_loop", "mt_write", "mt_rm1", "mt_rm2",
                "o_merge", "o_compress", "o_repartition"}

\* the process is killed between two file operations
CompKill ==
    /\ cpc \in CompRunning
    /\ cpc' = "crashed"
    /\ UNCHANGED <<fs, now, stamp, cop, strategy, partitions_to_merge, read_ok, merged_df,
                   merged_dir, to_delete, partition_dirs, target_num_partitions,
                   large_partitions, cpre, mpre, runs>>
    /\ UNCHANGED <<sinkLocals, max_partitions_to_merge, last>>

\* the call has returned, raised or died
CompReturn ==
    /\ cpc \in Ended
    /\ cpc' = "idle"
    /\ cop' = "none"
    /\ strategy' = "none"
    /\ partitions_to_merge' = {}
    /\ read_ok' = {}
    /\ merged_df' = <<>>
    /\ merged_dir' = NoDest
    /\ to_delete' = {}
    /\ partition_dirs' = <<>>
    /\ target_num_partitions' = 0
    /\ large_partitions' = {}
    /\ cpre' = fs
    /\ mpre' = fs
    /\ UNCHANGED <<fs, now, stamp, runs>>
    /\ max_partitions_to_merge' = 0
    /\ last' = IF cpc = "done"
               THEN [cop |-> cop, strategy |-> strategy, max |-> max_partitions_to_merge]
               ELSE NoCall
    /\ UNCHANGED sinkLocals

\* a second passes between two calls
Tick ==
    /\ cpc = "idle"
    /\ now < MaxClock
    /\ now' = now + 1
    /\ UNCHANGED <<fs, stamp, cpc, cop, strategy, partitions_to_merge, read_ok, merged_df,
                   merged_dir, to_delete, partition_dirs, target_num_partitions,
                   large_partitions, cpre, mpre, runs>>
    /\ UNCHANGED <<sinkLocals, max_partitions_to_merge, last>>

\* the same steps when no file operation fails and nothing is killed
QuietDelete == MergeSmallDelete /\ (to_delete' # to_delete => fs' # fs)

QuietCompress == OptimizeCompress /\ cpc' # "crashed" /\ \A d \in Dests : fs'[d].data.st # "partial"

QuietRemove == MergeToTargetRemove /\ cpc' # "failed"

CompNext ==
    \/ merge_small_partitions
    \/ merge_partitions_to_target
    \/ repartition_optimization
    \/ merge_adjacent_partitions
    \/ optimize_partition_storage
    \/ OptimizeMerge
    \/ OptimizeCompress
    \/ OptimizeRepartition
    \/ MergeWrite
    \/ MergeWriteTorn
    \/ MergeSmallDelete
    \/ MergeToTargetLoop
    \/ MergeToTargetRemove
    \/ CompKill
    \/ CompReturn
    \/ Tick

-----------------------------------------------------------------------------
(* EtlRuntime.process_data: key derivation, sort, partitioned write *)

\* A string is a sequence of characters; a null value of the column is NullDate.
NullDate == <<"null">>

Digits == <<"0", "1", "2", "3", "4", "5", "6", "7", "8", "9">>

IsDigit(c) == \E i \in 1..10 : Digits[i] = c

DigitVal(c) == (CHOOSE i \in 1..10 : Digits[i] = c) - 1

ReplaceFirst_all(str, ch) == SelectSeq(str, LAMBDA c : c # ch)

\* .str.replace(ch, ''): only the first match is replaced
ReplaceFirst(str, ch) ==
    IF \E i \in 1..Len(str) : str[i] = ch
    THEN LET i == CHOOSE x \in 1..Len(str) :
                    str[x] = ch /\ \A y \in 1..(x - 1) : str[y] # ch
         IN  SubSeq(str, 1, i - 1) \o SubSeq(str, i + 1, Len(str))
    ELSE str

RECURSIVE Decimal(_)
Decimal(str) ==
    IF str = <<>> THEN 0
    ELSE 10 * Decimal(SubSeq(str, 1, Len(str) - 1)) + DigitVal(str[Len(str)])

\* the number fits 32 bits: at most 4294967295, compared five digits at a time
FitsUInt32(str) ==
    \/ Len(str) < 10
    \/ /\ Len(str) = 10
       /\ LET hi == Decimal(SubSeq(str, 1, 5))
              lo == Decimal(SubSeq(str, 6, 10))
          IN  hi < 42949 \/ (hi = 42949 /\ lo <= 67295)

\* .cast(pl.UInt32, strict=False): null for what is not a number that fits
ToUInt32(str) ==
    IF str = NullDate \/ str = <<>> \/ \E i \in 1..Len(str) : ~IsDigit(str[i])
    THEN Null
    ELSE IF FitsUInt32(str) THEN Decimal(str) ELSE Null

\* the <partition_field>_int column
IntField(date) ==
    IF date = NullDate THEN Null
    ELSE ToUInt32(ReplaceFirst(ReplaceFirst(date, "-"), "/"))

\* the year or year_month column; null stays null
DeriveKey(granularity, date) ==
    IF IntField(date) = Null THEN Null
    ELSE IF granularity = "year" THEN IntField(date) \div 10000
    ELSE IntField(date) \div 100

\* values of the date column: plain, with separators, not a date, null
Str20230115 == <<"2", "0", "2", "3", "0", "1", "1", "5">>
Str20221231 == <<"2", "0", "2", "2", "1", "2", "3", "1">>
StrDashed == <<"2", "0", "2", "3", "-", "0", "1", "-", "1", "5">>
StrNotADate == <<"N", "/", "A">>
DateValues == {Str20230115, Str20221231, StrDashed, StrNotADate, NullDate}

\* values of the sort field
SortValues == {1, 2}

EtlRows == [date : DateValues, s : SortValues]

\* has: the partition field is a column of the frame
EtlFrames == [has : {TRUE}, rows : SeqsUpTo(EtlRows, MaxBlocks)]
                \cup [has : {FALSE}, rows : SeqsUpTo([date : {NullDate}, s : SortValues], 1)]

\* the partition a previous write left for the first key of the dataset
PriorFile(k) == Whole(<<[key |-> k, n |-> 1, s |-> 1]>>)

\* process_data is called with a frame, on a dataset that may hold a partition
EtlInit ==
    /\ partition_granularity \in {"year", "year_month"}
    /\ \E prior \in BOOLEAN :
         LET k == IF partition_granularity = "year" THEN 2023 ELSE 202301
             d == PartName(partition_granularity, k)
         IN  /\ base_exists = prior
             /\ fs = [x \in Dests |->
                        IF prior /\ x = d
                        THEN [dir |-> TRUE, data |-> PriorFile(k), backup |-> Absent]
                        ELSE NoDir]
    /\ WriterIdle
    /\ CompIdle
    /\ TasksIdle
    /\ MgmtIdle
    /\ epc = "start"
    /\ input_df \in EtlFrames
    /\ lf = <<>>

\* the rows with their partition column
Keyed(granularity, rows) ==
    [i \in 1..Len(rows) |->
        [key |-> DeriveKey(granularity, rows[i].date), n |-> 1, s |-> rows[i].s]]

\* _normalize_fields: add the int column and the partition column, or raise
\* when the partition field is not a column
normalize_fields ==
    /\ epc = "start"
    /\ IF input_df.has
       THEN /\ lf' = Keyed(partition_granularity, input_df.rows)
            /\ epc' = "normalized"
       ELSE /\ epc' = "error"
            /\ UNCHANGED lf
    /\ UNCHANGED <<sinkVars, compVars, taskVars, mgmtVars, input_df>>

RECURSIVE Insert(_, _)
Insert(r, sorted) ==
    IF sorted = <<>> THEN <<r>>
    ELSE IF r.s < Head(sorted).s THEN <<r>> \o sorted
    ELSE <<Head(sorted)>> \o Insert(r, Tail(sorted))

SortBy_none(rows) == rows

\* lf.sort(available_fields)
RECURSIVE SortBy(_)
SortBy(rows) ==
    IF rows = <<>> THEN <<>>
    ELSE Insert(rows[Len(rows)], SortBy(SubSeq(rows, 1, Len(rows) - 1)))

\* step 6 of process_data
Sort ==
    /\ epc = "normalized"
    /\ lf' = SortBy(lf)
    /\ epc' = "sorted"
    /\ UNCHANGED <<sinkVars, compVars, taskVars, mgmtVars, input_df>>

\* _write_data: the partition column is there; call the sink of the granularity
write_data ==
    /\ epc = "sorted"
    /\ epc' = "writing"
    /\ LET frame == [cols |-> TRUE, rows |-> lf]
       IN  /\ Enter(IF partition_granularity = "year"
                    THEN "enhanced_yearly_partitioned_sink"
                    ELSE "enhanced_monthly_partitioned_sink", frame)
           /\ MissingColumnCheck(frame)
    /\ UNCHANGED <<input_df, lf, modeVars>>

EtlNext ==
    \/ normalize_fields
    \/ Sort
    \/ write_data
    \/ PartitionLoop
    \/ WriteTmp
    \/ RenameBackup
    \/ RenameTmp
    \/ UnlinkBackup

\* one call of process_data, every file operation succeeding
SpecEtl == EtlInit /\ [][EtlNext]_vars

-----------------------------------------------------------------------------
(* InterfaceTaskManager and the storage hand-off of OptimizedDataDownloader *)

\* a call waiting in the executor: _process_interface_queue(name), or
\* _run_etl_process(name, df); page: the name is "<name>_page_<i>"
QueueJob(i) == [kind |-> "queue", name |-> i, page |-> FALSE]
EtlJob(i, page) == [kind |-> "etl", name |-> i, page |-> page]

\* what a task function hands back: a frame, a list of pages, or nothing
\* (None, or an exception)
Outcomes == {"frame", "pages", "none"}

TasksInit ==
    /\ partition_granularity = "none"
    /\ base_exists = FALSE
    /\ fs = [d \in Dests |-> NoDir]
    /\ WriterIdle
    /\ CompIdle
    /\ EtlIdle
    /\ TasksIdle
    /\ MgmtIdle

\* submit_interface_task: put the task on the interface's queue and submit
\* one _process_interface_queue call to the pool
submit_interface_task ==
    /\ submitted < MaxSubmits
    /\ \E i \in Interfaces :
         /\ interface_queues' = [interface_queues EXCEPT ![i] = @ + 1]
         /\ work_queue' = Append(work_queue, QueueJob(i))
    /\ submitted' = submitted + 1
    /\ UNCHANGED <<sinkVars, compVars, etlVars, mgmtVars, stored, interface_locks, threads, results>>

\* an idle worker thread takes the next call from the executor's queue
WorkerTakes ==
    /\ work_queue # <<>>
    /\ \E w \in Workers :
         /\ threads[w].at = "idle"
         /\ threads' = [threads EXCEPT ![w] =
                          [at |-> IF Head(work_queue).kind = "queue" THEN "acquire" ELSE "etl",
                           name |-> Head(work_queue).name,
                           page |-> Head(work_queue).page,
                           out |-> "none"]]
    /\ work_queue' = Tail(work_queue)
    /\ UNCHANGED <<sinkVars, compVars, etlVars, mgmtVars, stored, interface_queues, interface_locks, results,
                   submitted>>

TryLock_always(held) == TRUE

\* lock.acquire(blocking=False) succeeds when the lock is free
TryLock(held) == ~held

\* _process_interface_queue: take the interface lock or return at once
process_interface_queue ==
    /\ \E w \in Workers :
         /\ threads[w].at = "acquire"
         /\ IF TryLock(interface_locks[threads[w].name])
            THEN /\ interface_locks' = [interface_locks EXCEPT ![threads[w].name] = TRUE]
                 /\ threads' = [threads EXCEPT ![w].at = "get"]
            ELSE /\ threads' = [threads EXCEPT ![w] = IdleThread]
                 /\ UNCHANGED interface_locks
    /\ UNCHANGED <<sinkVars, compVars, etlVars, mgmtVars, stored, interface_queues, work_queue, results,
                   submitted>>

\* if not queue.empty(): queue.get() and call the task function
TakeTask ==
    /\ \E w \in Workers :
         /\ threads[w].at = "get"
         /\ IF interface_queues[threads[w].name] > 0
            THEN /\ interface_queues' = [interface_queues EXCEPT ![threads[w].name] = @ - 1]
                 /\ threads' = [threads EXCEPT ![w].at = "task"]
            ELSE /\ threads' = [threads EXCEPT ![w].at = "finally"]
                 /\ UNCHANGED interface_queues
    /\ UNCHANGED <<sinkVars, compVars, etlVars, mgmtVars, stored, interface_locks, work_queue, results,
                   submitted>>

\* the task function returns or raises
TaskReturns ==
    /\ \E w \in Workers, out \in Outcomes :
         /\ threads[w].at = "task"
         /\ threads' = [threads EXCEPT ![w].at = "finally", ![w].out = out]
    /\ UNCHANGED <<sinkVars, compVars, etlVars, mgmtVars, stored, interface_queues, interface_locks, work_queue,
                   results, submitted>>

\* finally: active = False, lock.release(); the future now has its result
Finally ==
    /\ \E w \in Workers :
         /\ threads[w].at = "finally"
         /\ interface_locks' = [interface_locks EXCEPT ![threads[w].name] = FALSE]
         /\ results' = IF threads[w].out = "none" THEN results
                       ELSE [results EXCEPT ![threads[w].name] = Append(@, threads[w].out)]
         /\ threads' = [threads EXCEPT ![w] = IdleThread]
    /\ UNCHANGED <<sinkVars, compVars, etlVars, mgmtVars, stored, interface_queues, work_queue, submitted>>

\* the main thread has a result of a future and hands it to
\* process_and_store_data, which submits _run_etl_process straight to the
\* pool; the pages of a paginated result go one by one under the name
\* "<data_type>_page_<i>"
process_and_store_data ==
    /\ \E i \in Interfaces :
         /\ results[i] # <<>>
         /\ results' = [results EXCEPT ![i] = Tail(@)]
         /\ work_queue' = IF Head(results[i]) = "pages"
                          THEN work_queue \o <<EtlJob(i, TRUE), EtlJob(i, TRUE)>>
                          ELSE Append(work_queue, EtlJob(i, FALSE))
    /\ UNCHANGED <<sinkVars, compVars, etlVars, mgmtVars, stored, interface_queues, interface_locks, threads,
                   submitted>>

\* _run_etl_process: process_data raises for a name that is not in
\* DATA_INTERFACE_CONFIG, else it runs up to the sink commit
run_etl_process ==
    /\ \E w \in Workers :
         /\ threads[w].at = "etl"
         /\ threads' = [threads EXCEPT ![w] =
                          IF threads[w].page THEN IdleThread
                          ELSE [threads[w] EXCEPT !.at = "storing"]]
    /\ UNCHANGED <<sinkVars, compVars, etlVars, mgmtVars, stored, interface_queues, interface_locks, work_queue,
                   results, submitted>>

\* process_data has returned or raised
EtlEnds ==
    /\ \E w \in Workers :
         /\ threads[w].at = "storing"
         /\ stored' = [stored EXCEPT ![threads[w].name] = @ + 1]
         /\ threads' = [threads EXCEPT ![w] = IdleThread]
    /\ UNCHANGED <<sinkVars, compVars, etlVars, mgmtVars, interface_queues, interface_locks, work_queue,
                   results, submitted>>

TasksNext ==
    \/ submit_interface_task
    \/ WorkerTakes
    \/ process_interface_queue
    \/ TakeTask
    \/ TaskReturns
    \/ Finally
    \/ process_and_store_data
    \/ run_etl_process
    \/ EtlEnds

\* the downloader's thread pool, under every interleaving of its threads
SpecTasks == TasksInit /\ [][TasksNext]_vars

\* every step of a pool thread that can be taken is taken in the end, task
\* functions and process_data return, and the main thread collects every
\* result; nothing is assumed of the callers of submit_interface_task
PoolFairness ==
    /\ WF_vars(WorkerTakes)
    /\ WF_vars(process_interface_queue)
    /\ WF_vars(TakeTask)
    /\ WF_vars(TaskReturns)
    /\ WF_vars(Finally)
    /\ WF_vars(process_and_store_data)
    /\ WF_vars(run_etl_process)
    /\ WF_vars(EtlEnds)

\* the same pool with a fair executor and task functions that terminate
SpecTasksFair == TasksInit /\ [][TasksNext]_vars /\ PoolFairness

-----------------------------------------------------------------------------
(* Specifications *)

SinkNext ==
    \/ atomic_partitioned_sink
    \/ enhanced_yearly_partitioned_sink
    \/ enhanced_monthly_partitioned_sink
    \/ atomic_unpartitioned_sink
    \/ PartitionLoop
    \/ WriteTmp
    \/ UnlinkStale
    \/ RenameBackup
    \/ RenameTmp
    \/ UnlinkBackup
    \/ StepFails
    \/ Handler
    \/ Kill
    \/ ReaderLooks
    \/ Return

\* the sinks, with kills, failing file operations and a reader
Spec == SinkInit /\ [][SinkNext]_vars

\* compaction of a partitioned dataset, with kills and failing file operations
SpecCompact == CompInit /\ [][CompNext]_vars

QuietNext ==
    \/ merge_small_partitions
    \/ merge_partitions_to_target
    \/ repartition_optimization
    \/ merge_adjacent_partitions
    \/ optimize_partition_storage
    \/ OptimizeMerge
    \/ QuietCompress
    \/ OptimizeRepartition
    \/ MergeWrite
    \/ QuietDelete
    \/ MergeToTargetLoop
    \/ QuietRemove
    \/ CompReturn
    \/ Tick

\* compaction when every file operation succeeds and no process is killed
SpecQuiet == QuietInit /\ [][QuietNext]_vars

-----------------------------------------------------------------------------
(* Properties of the sinks *)

\* rows of a batch with a given key, by plain equality
RowsWithKey(rows, k) == SelectSeq(rows, LAMBDA b : b.key = k)

KeyOfDest(d) == d[2]

OwnParts == {PartName(partition_granularity, k) : k \in KeysOf(partition_granularity)}

RECURSIVE SumRows(_, _)
SumRows(tree, ds) ==
    IF ds = {} THEN 0
    ELSE LET d == CHOOSE x \in ds : TRUE
         IN  RowCount(tree[d].data.rows) + SumRows(tree, ds \ {d})

\* C1: crash atomicity of the single-file commit.  If F held a complete
\* version when the call began and the process is killed at any step, then F
\* is not truncated, F and F.backup are not both missing, and the prior
\* version is still whole in F or F.backup unless the new version is in F.
C1_CrashAtomicity ==
    (pc = "crashed" /\ cur # NoDest /\ Readable(pre[cur].data)) =>
        /\ fs[cur].data.st # "partial"
        /\ Exists(fs[cur].data) \/ Exists(fs[cur].backup)
        /\ \/ fs[cur].data = pre[cur].data
           \/ fs[cur].backup = pre[cur].data
           \/ fs[cur].data = Whole(partition_df)

\* killed between the two renames: F is gone, F.backup is the prior version
C1_Witness ==
    /\ pc = "crashed"
    /\ cur # NoDest
    /\ Readable(pre[cur].data)
    /\ ~Exists(fs[cur].data)
    /\ fs[cur].backup = pre[cur].data
    /\ tmp = Whole(partition_df)

\* C2: reader isolation.  While a destination F that existed before the call
\* is being committed, a reader finds F present and equal to the complete
\* prior content or to the complete new content.
C2_ReaderSeesOldOrNew ==
    (cur # NoDest /\ Exists(pre[cur].data) /\ seen # NotLooked) =>
        seen \in {pre[cur].data, Whole(partition_df)}

FailSteps123 == {"write_tmp", "unlink_stale", "rename_backup", "rename_tmp"}

\* C3 as stated: after a failure in steps 1-3 the temp file is gone, the
\* error has reached the caller and F has its content of before the call.
C3_FailureLeavesF ==
    (pc = "failed" /\ failed_at \in FailSteps123) =>
        /\ tmp = Absent
        /\ fs[cur].data = pre[cur].data

\* C3 amended: as above, except that when the rename of T to F fails after
\* an existing F was renamed away, F is absent and F.backup holds the
\* content F had before the call.
C3_FailureLeavesFOrBackup ==
    (pc = "failed" /\ failed_at \in FailSteps123) =>
        /\ tmp = Absent
        /\ IF failed_at = "rename_tmp" /\ Exists(pre[cur].data)
           THEN fs[cur].data = Absent /\ fs[cur].backup = pre[cur].data
           ELSE fs[cur].data = pre[cur].data

C3_Witness ==
    /\ pc = "failed"
    /\ failed_at = "rename_tmp"
    /\ Readable(pre[cur].data)
    /\ fs[cur].backup = pre[cur].data
    /\ tmp = Absent

\* C4: partition conservation.  A partitioned sink into an empty base_path,
\* for a batch with k distinct key values, ends with exactly k partition
\* directories, each holding exactly the batch rows of its key, and the row
\* counts of the partitions add up to the row count of the batch.
C4_PartitionConservation ==
    (pc = "done" /\ op \in PartitionedOps /\ \A d \in Dests : ~pre[d].dir) =>
        LET made == {d \in Dests : fs[d].dir}
        IN  /\ Cardinality(made) = Cardinality(UniqueKeys(lazy_frame.rows))
            /\ \A d \in made :
                 /\ d \in OwnParts
                 /\ fs[d].data = Whole(RowsWithKey(lazy_frame.rows, KeyOfDest(d)))
            /\ SumRows(fs, made) = RowCount(lazy_frame.rows)

\* C5: overwrite and frame.  During and after a partitioned sink call every
\* partition whose key is not in the batch is as it was before the call, and
\* when the call returns each key of the batch has a partition whose data
\* file holds exactly the rows of the batch with that key.
C5_OverwriteAndFrame ==
    (op \in PartitionedOps) =>
        /\ \A d \in Dests :
             (d \notin OwnParts \/ KeyOfDest(d) \notin UniqueKeys(lazy_frame.rows))
                 => fs[d] = pre[d]
        /\ (pc = "done") =>
             \A k \in UniqueKeys(lazy_frame.rows) \ {Null} :
                 LET d == PartName(partition_granularity, k)
                 IN  /\ fs[d].dir
                     /\ fs[d].data = Whole(RowsWithKey(lazy_frame.rows, k))

\* a partition is replaced by different content while another, whose key is
\* not in the batch, is kept
C5_Witness ==
    /\ pc = "done"
    /\ op \in PartitionedOps
    /\ \E d, e \in OwnParts :
         /\ KeyOfDest(d) \in UniqueKeys(lazy_frame.rows)
         /\ Readable(pre[d].data)
         /\ fs[d].data # pre[d].data
         /\ RowCount(fs[d].data.rows) < RowCount(pre[d].data.rows)
         /\ KeyOfDest(e) \notin UniqueKeys(lazy_frame.rows)
         /\ Readable(fs[e].data)

\* C6: a batch without the partition column is rejected by every partitioned
\* sink, and nothing under base_path, base_path included, is created or
\* altered.
C6_MissingFieldRejected ==
    (op \in PartitionedOps /\ ~lazy_frame.cols) =>
        /\ pc = "failed"
        /\ fs = pre
        /\ base_exists = pre_base

\* keys of the batch whose commit the loop has completed
Committed == UniqueKeys(lazy_frame.rows) \ (todo \cup {KeyOfDest(cur), Null})

\* C11: partial success.  When the commit of one partition has failed in a
\* partitioned sink call, every partition committed earlier in the call
\* holds the rows of the batch for its key; nothing is rolled back.
C11_NoRollback ==
    (op \in PartitionedOps /\ pc \in {"handler", "failed"} /\ cur # NoDest) =>
        \A k \in Committed :
            fs[PartName(partition_granularity, k)].data = Whole(RowsWithKey(lazy_frame.rows, k))

\* the call failed after it had replaced another partition
C11_Witness ==
    /\ op \in PartitionedOps
    /\ pc = "failed"
    /\ cur # NoDest
    /\ \E k \in Committed :
         LET d == PartName(partition_granularity, k)
         IN  /\ Readable(pre[d].data)
             /\ fs[d].data # pre[d].data
             /\ fs[d].data = Whole(RowsWithKey(lazy_frame.rows, k))

\* C12: failure isolation.  When the commit of one partition has failed with
\* a file error, every other key of the batch has been committed by the time
\* the call ends.
C12_OthersStillCommitted ==
    (op \in PartitionedOps /\ pc = "failed" /\ cur # NoDest) =>
        \A k \in UniqueKeys(lazy_frame.rows) \ {KeyOfDest(cur), Null} :
            fs[PartName(partition_granularity, k)].data = Whole(RowsWithKey(lazy_frame.rows, k))

\* C13: no leftover backup.  When the commit of a destination F has
\* succeeded, F.backup does not exist, whatever F and F.backup were before.
C13_NoBackupLeft ==
    (pc \in {"loop", "done"} /\ cur # NoDest /\ fs[cur].data = Whole(partition_df)) =>
        ~Exists(fs[cur].backup)

-----------------------------------------------------------------------------
(* Properties of compaction *)

AllKeys == UNION {KeysOf(f) : f \in Fields} \cup CompactKeys \cup {Null}

\* number of rows with a given key
KeyCount(rows, k) == RowCount(RowsWithKey(rows, k))

RECURSIVE SumKeyCount(_, _, _)
SumKeyCount(tree, ds, k) ==
    IF ds = {} THEN 0
    ELSE LET d == CHOOSE x \in ds : TRUE
         IN  KeyCount(tree[d].data.rows, k) + SumKeyCount(tree, ds \ {d}, k)

\* rows that can be read from the partitions under base_path
TotalRows(tree) == SumRows(tree, {d \in check_partition_sizes(tree) : Readable(tree[d].data)})

DirectMerges == {"merge_small_partitions", "merge_partitions_to_target", "repartition_optimization"}

\* merge_small_partitions has returned after merging
MergedSmall ==
    /\ cpc = "done"
    /\ merged_dir # NoDest
    /\ cop = "merge_small_partitions" \/ strategy = "merge"

\* C7: compaction losslessness.  When merge_small_partitions returns after a
\* merge, the merged partition's row count is the sum of the row counts of the
\* partitions it read, and for every key it holds as many rows as they held
\* together.
C7_MergeLossless ==
    MergedSmall =>
        /\ Readable(fs[merged_dir].data)
        /\ RowCount(fs[merged_dir].data.rows) = SumRows(mpre, read_ok)
        /\ \A k \in AllKeys :
             KeyCount(fs[merged_dir].data.rows, k) = SumKeyCount(mpre, read_ok, k)

\* two partitions with rows were merged and removed
C7_Witness ==
    /\ MergedSmall
    /\ Cardinality(read_ok) >= 2
    /\ \A d \in read_ok : RowCount(mpre[d].data.rows) > 0 /\ ~fs[d].dir
    /\ RowCount(fs[merged_dir].data.rows) = SumRows(mpre, read_ok)

\* C8: delete after commit.  At every point of a merge, killed and failed
\* runs included, each partition that was read is still as it was, or the
\* merged data file is completely written.
C8_DeleteAfterCommit ==
    (cop \in DirectMerges /\ merged_dir # NoDest) =>
        \A d \in read_ok :
            \/ fs[d].data = mpre[d].data
            \/ fs[merged_dir].data = Whole(merged_df)

\* the partitions a merge has selected
Selected == IF cop = "merge_small_partitions" THEN partitions_to_merge ELSE read_ok

\* C9: corrupt source.  When the data file of a selected partition cannot be
\* read, the run removes no selected partition; the unreadable partition's
\* directory is still there.
C9_CorruptSourcePreserved ==
    (cop \in DirectMerges /\ \E d \in Selected : ~Readable(mpre[d].data)) =>
        \A d \in Selected : fs[d].dir

\* C10: row conservation.  When a compaction call has returned, as many rows
\* can be read from the partitions under base_path as before the call.
C10_RowsConserved ==
    (cpc = "done") => TotalRows(fs) = TotalRows(cpre)

\* the call that has just finished repeats the call before it
Repeated ==
    /\ cpc = "done"
    /\ cop \in {"merge_small_partitions", "optimize_partition_storage"}
    /\ last = [cop |-> cop, strategy |-> strategy, max |-> max_partitions_to_merge]

\* C15: idempotence.  When merge_small_partitions or
\* optimize_partition_storage is run a second time with the same arguments
\* right after a run that returned, the second run leaves the partition
\* directories and their data files as it found them.
C15_SecondRunNoOp ==
    Repeated => fs = cpre

\* C16: no mutation in place.  While optimize_partition_storage runs, and
\* when it has failed or was killed, every partition data file that was
\* complete before the call and is still there is complete and has the row
\* count it had.
C16_NeverInPlace ==
    (cop = "optimize_partition_storage") =>
        \A d \in Dests :
            (Readable(cpre[d].data) /\ Exists(fs[d].data)) =>
                /\ Readable(fs[d].data)
                /\ RowCount(fs[d].data.rows) = RowCount(cpre[d].data.rows)

-----------------------------------------------------------------------------
(* Properties of process_data *)

\* the date with every separator stripped, as an integer
IntValue(date) ==
    IF date = NullDate THEN Null
    ELSE ToUInt32(SelectSeq(date, LAMBDA c : c \notin {"-", "/"}))

\* an 8-digit date, with or without separators
IsDate(date) ==
    /\ date # NullDate
    /\ IntValue(date) # Null
    /\ Len(SelectSeq(date, LAMBDA c : c \notin {"-", "/"})) = 8

\* every row of the batch has a date from which the code derives a key
ValidBatch ==
    /\ input_df.has
    /\ \A i \in 1..Len(input_df.rows) :
         DeriveKey(partition_granularity, input_df.rows[i].date) # Null

\* rows with sort value v in a sequence of rows that have the field s
CountS(rows, v) == Cardinality({i \in 1..Len(rows) : rows[i].s = v})

\* rows of the batch with key k and sort value v
CountIn(k, v) ==
    Cardinality({i \in 1..Len(input_df.rows) :
                    /\ DeriveKey(partition_granularity, input_df.rows[i].date) = k
                    /\ input_df.rows[i].s = v})

Ordered(rows) == \A i, j \in 1..Len(rows) : i < j => rows[i].s <= rows[j].s

BatchKeys == {DeriveKey(partition_granularity, input_df.rows[i].date) : i \in 1..Len(input_df.rows)}

C19_KeyDerivation ==
    (epc = "normalized") =>
        \A i \in 1..Len(input_df.rows) :
            IsDate(input_df.rows[i].date) =>
                lf[i].key = IF partition_granularity = "year"
                            THEN IntValue(input_df.rows[i].date) \div 10000
                            ELSE IntValue(input_df.rows[i].date) \div 100

\* a non-null value that is not a date even with its separators stripped
Unparseable(date) == date # NullDate /\ ~IsDate(date)

\* C20: derivation is fatal.  When the partition field is missing, or a
\* non-null value of it is not a date, process_data ends with an error
\* before anything is written.
C20_DerivationFatal ==
    (epc # "start" /\ (~input_df.has \/ \E i \in 1..Len(input_df.rows) :
                                           Unparseable(input_df.rows[i].date))) =>
        /\ epc = "error"
        /\ fs = pre

-----------------------------------------------------------------------------
(* Properties of the downloader *)

\* worker threads at a given position for a given interface
ThreadsAt(at, i) == {w \in Workers : threads[w].at = at /\ threads[w].name = i}

\* C17: single writer per dataset.  At most one process_data of a given
\* dataset is in progress at any time under OptimizedDataDownloader.
C17_OneWriterPerDataset ==
    \A i \in Interfaces : Cardinality(ThreadsAt("storing", i)) <= 1

\* C18: per-interface mutual exclusion.  At most one task function of an
\* interface is executing at any time.
C18_OneTaskPerInterface ==
    \A i \in Interfaces : Cardinality(ThreadsAt("task", i)) <= 1

\* tasks of two interfaces run at the same time, while a second task of one
\* of them, whose worker found the lock taken, waits in its queue
C18_Witness ==
    \E i, j \in Interfaces :
        /\ i # j
        /\ ThreadsAt("task", i) # {}
        /\ ThreadsAt("task", j) # {}
        /\ interface_queues[i] > 0
        /\ interface_locks[i] /\ interface_locks[j]


-----------------------------------------------------------------------------
(* Partition lifecycle: manage_partition_metadata, manage_partition_lifecycle *)

\* the metadata argument: None, or a dict that carries a created_time
NoInput == [has |-> FALSE, created_time |-> 0]
MetadataInputs == {NoInput} \cup {[has |-> TRUE, created_time |-> c] : c \in {0, BadTime}}

MetadataActions == {"create", "update", "get", "delete"}

LifecycleActions == {"cleanup", "archive", "backup"}

\* retention_days
RetentionDays == {0, 1}

RecordCount_zero(data) == 0

\* len(pl.read_parquet(data.parquet)); 0 when the file is missing or the read raises
RecordCount(data) == IF Readable(data) THEN RowCount(data.rows) ELSE 0

\* metadata.update({...}) of create and update, with the record count
Sidecar(data, metadata, t) ==
    MetaRec("ok",
            IF metadata.has THEN metadata.created_time ELSE t,
            t,
            IF Exists(data) THEN FileSize(data) ELSE 0,
            RecordCount(data))

\* open(metadata_file, 'w') and json.dump: the sidecar and the dict returned;
\* a dump that raises leaves the file cut short and the call returns {}
WriteSidecar(data, metadata, t, torn) ==
    IF torn THEN [meta |-> TornMeta, ret |-> EmptyDict]
    ELSE [meta |-> Sidecar(data, metadata, t), ret |-> Sidecar(data, metadata, t)]

\* manage_partition_metadata on a directory that exists
Metadata(d, action, metadata, t, torn) ==
    CASE action \in {"create", "update"} -> WriteSidecar(d.data, metadata, t, torn)
      [] action = "get" ->
            IF d.meta.st = "absent" THEN WriteSidecar(d.data, NoInput, t, torn)
            ELSE IF d.meta.st = "ok" THEN [meta |-> d.meta, ret |-> d.meta]
            ELSE [meta |-> d.meta, ret |-> EmptyDict]
      [] OTHER -> [meta |-> NoMeta, ret |-> EmptyDict]

\* manage_partition_metadata(partition_path, action, metadata); on a path
\* that does not exist the open raises and {} is returned
manage_partition_metadata ==
    /\ lcalls < MaxLifeCalls
    /\ \E p \in LifeParts, action \in MetadataActions, metadata \in MetadataInputs,
          torn \in BOOLEAN :
         /\ action \in {"get", "delete"} => metadata = NoInput
         /\ torn => (action \in {"create", "update"} /\ lroot[p].dir)
         /\ LET out == IF lroot[p].dir
                       THEN Metadata(lroot[p], action, metadata, lnow, torn)
                       ELSE [meta |-> lroot[p].meta, ret |-> EmptyDict]
            IN  /\ lroot' = [lroot EXCEPT ![p].meta = out.meta]
                /\ returned' = out.ret
         /\ lcall' = [op |-> action, name |-> p, retention_days |-> 0,
                      metadata |-> metadata, at |-> lnow]
    /\ lcalls' = lcalls + 1
    /\ lpre' = lroot
    /\ apre' = archived
    /\ result' = NoResult
    /\ UNCHANGED <<archived, lnow>>
    /\ UNCHANGED <<sinkVars, compVars, etlVars, taskVars, perfVars, selVars>>

Expired_le(created_time, cutoff_date) == created_time <= cutoff_date

\* created_dt < cutoff_date
Expired(created_time, cutoff_date) == created_time < cutoff_date

\* what the cleanup and archive loops find for one directory: the sidecar as
\* the get leaves it, and whether the directory is skipped (no created_time),
\* raises in fromisoformat, is due or is kept
Look(d, t, cutoff_date) ==
    LET g == Metadata(d, "get", NoInput, t, FALSE)
    IN  [meta |-> g.meta,
         verdict |-> IF g.ret = EmptyDict THEN "skip"
                     ELSE IF g.ret.created_time = BadTime THEN "error"
                     ELSE IF Expired(g.ret.created_time, cutoff_date) THEN "due"
                     ELSE "keep"]

\* action == "cleanup": every directory under base_path, archived included;
\* fails are the directories whose rmtree raises
Cleanup(tree, arch, t, cutoff_date, fails) ==
    LET look(e) == Look(tree[e], t, cutoff_date)
        la == Look([data |-> Absent, meta |-> arch.meta], t, cutoff_date)
        due == {e \in TopNames : tree[e].dir /\ look(e).verdict = "due"}
    IN  [root |-> [e \in TopNames |->
                     IF ~tree[e].dir THEN tree[e]
                     ELSE IF e \in due \ fails THEN NoTop
                     ELSE [tree[e] EXCEPT !.meta = look(e).meta]],
         archived |-> IF ~arch.dir THEN arch
                      ELSE IF la.verdict = "due" THEN NoArchive
                      ELSE [arch EXCEPT !.meta = la.meta],
         errors |-> {e \in TopNames : tree[e].dir /\ look(e).verdict = "error"}
                    \cup (due \cap fails),
         affected_partitions |-> Cardinality(due \ fails)
                                 + (IF arch.dir /\ la.verdict = "due" THEN 1 ELSE 0)]

MoveSource_copy(d) == d

\* what shutil.move leaves at the path it moved
MoveSource(d) == NoTop

\* action == "archive": every directory but archived; fails are the
\* directories whose shutil.move raises, after the rmtree of an earlier copy
Archive(tree, arch, t, cutoff_date, fails) ==
    LET look(e) == Look(tree[e], t, cutoff_date)
        due == {e \in TopNames : tree[e].dir /\ look(e).verdict = "due"}
        seen_as(e) == [tree[e] EXCEPT !.meta = look(e).meta]
    IN  [root |-> [e \in TopNames |->
                     IF ~tree[e].dir THEN tree[e]
                     ELSE IF e \in due \ fails THEN MoveSource(seen_as(e))
                     ELSE seen_as(e)],
         archived |-> [dir |-> TRUE,
                       meta |-> arch.meta,
                       sub |-> [e \in TopNames |->
                                  IF e \in due \ fails THEN seen_as(e)
                                  ELSE IF e \in due THEN NoTop
                                  ELSE arch.sub[e]]],
         errors |-> {e \in TopNames : tree[e].dir /\ look(e).verdict = "error"}
                    \cup (due \cap fails),
         affected_partitions |-> Cardinality(due \ fails)]

CopySource_move(d) == NoTop

\* what shutil.copytree leaves at the path it copied
CopySource(d) == d

\* action == "backup": every directory but backup_* and archived; copytree
\* raises when the destination exists, and for the directories in fails
Backup(tree, arch, t, fails) ==
    LET b == BackupName(t)
        src == {e \in LifeParts : tree[e].dir}
        copied == {e \in src : ~tree[b].sub[e].dir /\ e \notin fails}
    IN  [root |-> [e \in TopNames |->
                     IF e = b
                     THEN [tree[b] EXCEPT !.dir = TRUE,
                                          !.sub = [p \in LifeParts |->
                                                     IF p \in copied THEN Leaf(tree[p])
                                                     ELSE tree[b].sub[p]]]
                     ELSE IF e \in copied THEN CopySource(tree[e])
                     ELSE tree[e]],
         archived |-> arch,
         errors |-> src \ copied,
         affected_partitions |-> Cardinality(copied)]

\* manage_partition_lifecycle(base_path, action, retention_days)
manage_partition_lifecycle ==
    /\ lcalls < MaxLifeCalls
    /\ \E action \in LifecycleActions, retention_days \in RetentionDays,
          fails \in SUBSET LifeParts :
         /\ action = "backup" => retention_days = 0
         /\ LET cutoff_date == lnow - retention_days
                out == CASE action = "cleanup" ->
                              Cleanup(lroot, archived, lnow, cutoff_date, fails)
                         [] action = "archive" ->
                              Archive(lroot, archived, lnow, cutoff_date, fails)
                         [] OTHER -> Backup(lroot, archived, lnow, fails)
            IN  /\ lroot' = out.root
                /\ archived' = out.archived
                /\ result' = [errors |-> out.errors,
                              affected_partitions |-> out.affected_partitions]
         /\ lcall' = [op |-> action, name |-> NoDest, retention_days |-> retention_days,
                      metadata |-> NoInput, at |-> lnow]
    /\ lcalls' = lcalls + 1
    /\ lpre' = lroot
    /\ apre' = archived
    /\ returned' = EmptyDict
    /\ UNCHANGED lnow
    /\ UNCHANGED <<sinkVars, compVars, etlVars, taskVars, perfVars, selVars>>

\* a day passes
LifeTick ==
    /\ lnow < MaxDay
    /\ lnow' = lnow + 1
    /\ UNCHANGED <<lroot, archived, lcall, lpre, apre, result, returned, lcalls>>
    /\ UNCHANGED <<sinkVars, compVars, etlVars, taskVars, perfVars, selVars>>

\* the data file of a managed partition: one row block, of a size of its own
ManagedFile(k) == Whole(<<[key |-> k, n |-> k - 2021]>>)

\* a dataset written by the sinks, on day 0: each partition is missing, or
\* holds a data file, with or without a sidecar created that day
ManagedDataset ==
    /\ partition_granularity = "year"
    /\ base_exists = TRUE
    /\ fs = [d \in Dests |-> NoDir]
    /\ WriterIdle
    /\ CompIdle
    /\ EtlIdle
    /\ TasksIdle
    /\ \E layout \in [LifeParts -> {"none", "data", "sidecar"}] :
         lroot = [e \in TopNames |->
                    IF e \in LifeParts /\ layout[e] # "none"
                    THEN [NoTop EXCEPT
                            !.dir = TRUE,
                            !.data = ManagedFile(e[2]),
                            !.meta = IF layout[e] = "sidecar"
                                     THEN Sidecar(ManagedFile(e[2]), NoInput, 0)
                                     ELSE NoMeta]
                    ELSE NoTop]
    /\ archived = NoArchive
    /\ lnow = 0
    /\ lcall = NoLifeCall
    /\ lpre = lroot
    /\ apre = archived
    /\ result = NoResult
    /\ returned = EmptyDict
    /\ lcalls = 0

LifeInit == ManagedDataset /\ PerfIdle /\ SelIdle

LifeNext ==
    \/ manage_partition_metadata
    \/ manage_partition_lifecycle
    \/ LifeTick

SpecLife == LifeInit /\ [][LifeNext]_vars

-----------------------------------------------------------------------------
(* Performance monitoring: history, alert configuration, alerts *)

\* the number of records update_performance_history keeps
HistoryCap == 100

\* query_time_ms of a measurement
QueryTimes == {700, 2000}

\* threshold_ms of setup_performance_alerts
Thresholds == {500, 1000}

\* the threshold analyze_partition_query_performance applies to an average
IssueThreshold == 1000

\* time_window_hours = 24, in days
TimeWindow == 1

\* performance_metrics; id tells apart two measurements of the same day
Measurement(id, t, q) == [id |-> id, timestamp |-> t, query_time_ms |-> q]

Keep_oldest(records) == SubSeq(records, 1, HistoryCap)

\* history[-100:]
Keep(records) == SubSeq(records, Len(records) - HistoryCap + 1, Len(records))

\* update_performance_history: a file that cannot be read is left as it is;
\* a dump that raises leaves the file cut short
update_performance_history(file, new_metrics, torn) ==
    IF file.st = "torn" THEN file
    ELSE IF torn THEN [st |-> "torn", entries |-> <<>>]
    ELSE LET appended == file.entries \o <<new_metrics>>
         IN  [st |-> "ok",
              entries |-> IF Len(appended) > HistoryCap THEN Keep(appended)
                          ELSE appended]

\* monitor_partition_performance(partition_path): without a data file it
\* returns before the history is touched
monitor_partition_performance ==
    /\ pcalls < MaxPerfCalls
    /\ \E p \in LifeParts, q \in QueryTimes, torn \in BOOLEAN :
         /\ torn => (Readable(lroot[p].data) /\ history[p].st # "torn")
         /\ LET m == Measurement(Len(arrivals[p]) + 1, lnow, q)
            IN  IF Readable(lroot[p].data)
                THEN /\ history' = [history EXCEPT
                                      ![p] = update_performance_history(@, m, torn)]
                     /\ arrivals' = [arrivals EXCEPT ![p] = Append(@, m)]
                ELSE UNCHANGED <<history, arrivals>>
         /\ pcall' = [op |-> "monitor", name |-> p, at |-> lnow]
    /\ pcalls' = pcalls + 1
    /\ UNCHANGED <<alert_config, alerts>>
    /\ UNCHANGED <<sinkVars, compVars, etlVars, taskVars, lifeVars, selVars>>

\* setup_performance_alerts(base_path, threshold_ms)
setup_performance_alerts ==
    /\ pcalls < MaxPerfCalls
    /\ \E threshold_ms \in Thresholds :
         alert_config' = [st |-> "ok", threshold_ms |-> threshold_ms, enabled |-> TRUE]
    /\ pcall' = [op |-> "setup", name |-> NoDest, at |-> lnow]
    /\ pcalls' = pcalls + 1
    /\ UNCHANGED <<history, arrivals, alerts>>
    /\ UNCHANGED <<sinkVars, compVars, etlVars, taskVars, lifeVars, selVars>>

\* recent_records: the records whose timestamp is inside the window
RecentRecords(records, t) ==
    SelectSeq(records, LAMBDA record : record.timestamp > t - TimeWindow)

\* sum(partition_query_times), added up half by half
RECURSIVE SumQueryTimes(_)
SumQueryTimes(records) ==
    IF records = <<>> THEN 0
    ELSE IF Len(records) = 1 THEN records[1].query_time_ms
    ELSE LET half == Len(records) \div 2
         IN  SumQueryTimes(SubSeq(records, 1, half))
             + SumQueryTimes(SubSeq(records, half + 1, Len(records)))

\* sum(partition_query_times) / len(partition_query_times) > limit
AverageAbove(records, limit) ==
    records # <<>> /\ SumQueryTimes(records) > limit * Len(records)

\* performance_issues of analyze_partition_query_performance
PerformanceIssues(tree, files, t) ==
    {p \in LifeParts :
        /\ tree[p].dir
        /\ files[p].st = "ok"
        /\ AverageAbove(RecentRecords(files[p].entries, t), IssueThreshold)}

\* whether the name time is bound where check_performance_alerts builds an
\* alert: the module imports no time and neither does the function
TimeBound == FALSE

\* check_performance_alerts: the first alert raises NameError on time.time(),
\* the handler logs it and returns []
CheckAlerts(tree, files, config, t) ==
    IF config.st # "ok" \/ ~config.enabled THEN {}
    ELSE LET over == {p \in PerformanceIssues(tree, files, t) :
                        AverageAbove(RecentRecords(files[p].entries, t),
                                     config.threshold_ms)}
         IN  IF over # {} /\ ~TimeBound THEN {} ELSE over

check_performance_alerts ==
    /\ pcalls < MaxPerfCalls
    /\ alerts' = CheckAlerts(lroot, history, alert_config, lnow)
    /\ pcall' = [op |-> "check", name |-> NoDest, at |-> lnow]
    /\ pcalls' = pcalls + 1
    /\ UNCHANGED <<history, arrivals, alert_config>>
    /\ UNCHANGED <<sinkVars, compVars, etlVars, taskVars, lifeVars, selVars>>

\* the histories earlier monitoring has left: none, or one record short of
\* the cap, measured on day 0
PerfInit ==
    /\ ManagedDataset
    /\ \E len \in [LifeParts -> {0, HistoryCap - 1}] :
         history = [p \in LifeParts |->
                      IF lroot[p].dir /\ len[p] > 0
                      THEN [st |-> "ok",
                            entries |-> [i \in 1..len[p] |-> Measurement(i, 0, 700)]]
                      ELSE NoHistory]
    /\ arrivals = [p \in LifeParts |-> history[p].entries]
    /\ alert_config = NoConfig
    /\ pcall = NoPerfCall
    /\ alerts = {}
    /\ pcalls = 0
    /\ SelIdle

PerfNext ==
    \/ monitor_partition_performance
    \/ setup_performance_alerts
    \/ check_performance_alerts
    \/ LifeTick

SpecPerf == PerfInit /\ [][PerfNext]_vars

-----------------------------------------------------------------------------
(* Properties of the partition tree *)

\* every partition directory of the tree holds a data file that can be read
\* and has at least one row
NoEmptyPartition(tree) ==
    \A d \in Dests \ {Unpart} :
        tree[d].dir => (Readable(tree[d].data) /\ RowCount(tree[d].data.rows) > 0)

\* C21: no empty partitions.  When a compaction call returns normally on a
\* tree whose partition directories all held a non-empty data file, every
\* partition directory still holds a data file that is present and non-empty.
C21_NoEmptyPartitions ==
    (cpc = "done" /\ NoEmptyPartition(cpre)) => NoEmptyPartition(fs)

\* the same for the sinks: a key with no rows gets no directory
C21_SinkNoEmptyPartitions ==
    (pc = "done" /\ NoEmptyPartition(pre)) => NoEmptyPartition(fs)


\* repartition_optimization has returned, or has raised on a data file that
\* pl.read_parquet could not read
RepartitionEnded ==
    /\ cop = "repartition_optimization"
    /\ \/ cpc = "done"
       \/ cpc = "failed" /\ \E p \in read_ok : fs[p].data = Partial

\* C22: repartition to target.  With target = max(1, floor(totalBytes /
\* (100 * 2^20))), a repartition_optimization call that found more partitions
\* than target ends with exactly target partitions holding a data file, for
\* every state of the directory; a call that found at most target partitions
\* changes nothing.
C22_RepartitionToTarget ==
    RepartitionEnded =>
        IF Cardinality(check_partition_sizes(cpre)) > TargetFor(cpre, 100)
        THEN Cardinality(check_partition_sizes(fs)) = TargetFor(cpre, 100)
        ELSE fs = cpre

\* the same for the calls that return normally
C22_ReturnedAtTarget ==
    (cop = "repartition_optimization" /\ cpc = "done") =>
        IF Cardinality(check_partition_sizes(cpre)) > TargetFor(cpre, 100)
        THEN Cardinality(check_partition_sizes(fs)) = TargetFor(cpre, 100)
        ELSE fs = cpre


\* C23: merge_adjacent_partitions only identifies candidates.  After the call
\* every partition directory that existed before still exists and no data
\* file has been created, changed or removed.
C23_AdjacentOnlyIdentifies ==
    (cop = "merge_adjacent_partitions") =>
        \A d \in Dests :
            /\ fs[d].dir = cpre[d].dir
            /\ fs[d].data = cpre[d].data

\* the call has returned on a tree with two small partitions of adjacent years
C23_Witness ==
    /\ cop = "merge_adjacent_partitions"
    /\ cpc = "done"
    /\ AdjacentPairs(cpre, partition_dirs) # {}


-----------------------------------------------------------------------------
(* Properties of the partition lifecycle *)

\* the partition had a sidecar with a created_time that can be parsed when
\* the last call started
Dated(p) ==
    /\ lpre[p].dir
    /\ lpre[p].meta.st = "ok"
    /\ lpre[p].meta.created_time # BadTime

\* its created_time was older than the cutoff of the last call
Old(p) == lpre[p].meta.created_time < lcall.at - lcall.retention_days

\* C24: retention cleanup.  A cleanup deletes every partition whose sidecar
\* created_time is older than now minus retention_days, unless its rmtree
\* raised and the errors list names it, and deletes no partition whose
\* created_time is within the retention period or that had no sidecar yet.
C24_RetentionCleanup ==
    (lcall.op = "cleanup") =>
        \A p \in LifeParts :
            /\ (Dated(p) /\ Old(p)) => (p \in result.errors \/ ~lroot[p].dir)
            /\ (Dated(p) /\ ~Old(p)) => lroot[p] = lpre[p]
            /\ (lpre[p].dir /\ lpre[p].meta.st = "absent") =>
                   (lroot[p].dir /\ lroot[p].data = lpre[p].data)

\* a cleanup has deleted one partition and kept another that had a sidecar
C24_Witness ==
    /\ lcall.op = "cleanup"
    /\ \E p, q \in LifeParts :
         /\ Dated(p) /\ Old(p) /\ ~lroot[p].dir
         /\ Dated(q) /\ ~Old(q) /\ lroot[q].dir

\* C25: archive moves.  An archive relocates each partition whose
\* created_time is older than the cutoff to archived/<same name> with the
\* same files, after which it is gone from its original path, unless the move
\* raised and the errors list names it; a partition within retention stays
\* where it is, unchanged.
C25_ArchiveMoves ==
    (lcall.op = "archive") =>
        \A p \in LifeParts :
            /\ (Dated(p) /\ Old(p)) =>
                   \/ p \in result.errors
                   \/ (~lroot[p].dir /\ archived.sub[p] = lpre[p])
            /\ (Dated(p) /\ ~Old(p)) =>
                   (lroot[p] = lpre[p] /\ archived.sub[p] = apre.sub[p])

\* an archive has moved one partition and left another in place
C25_Witness ==
    /\ lcall.op = "archive"
    /\ \E p, q \in LifeParts :
         /\ Dated(p) /\ Old(p) /\ ~lroot[p].dir /\ archived.sub[p].dir
         /\ Dated(q) /\ ~Old(q) /\ lroot[q].dir

\* C26: backup copies.  A backup leaves every partition directory exactly as
\* it was, and backup_<timestamp>/ holds a copy of every partition that
\* existed, unless its copytree raised and the errors list names it.
C26_BackupCopies ==
    (lcall.op = "backup") =>
        /\ lroot[BackupName(lcall.at)].dir
        /\ archived = apre
        /\ \A p \in LifeParts :
               /\ lroot[p] = lpre[p]
               /\ lpre[p].dir =>
                      \/ p \in result.errors
                      \/ lroot[BackupName(lcall.at)].sub[p] = Leaf(lpre[p])

\* a backup has copied two partitions into a directory that did not exist
C26_Witness ==
    /\ lcall.op = "backup"
    /\ ~lpre[BackupName(lcall.at)].dir
    /\ result.errors = {}
    /\ \A p \in LifeParts : lpre[p].dir /\ lroot[BackupName(lcall.at)].sub[p].dir

\* the metadata of the partition could not be used by the last call: the
\* sidecar cannot be read, or its created_time cannot be parsed
BadSidecar(p) ==
    /\ lpre[p].dir
    /\ \/ lpre[p].meta.st = "torn"
       \/ lpre[p].meta.st = "ok" /\ lpre[p].meta.created_time = BadTime

\* C27: best-effort bulk lifecycle.  A cleanup or archive names in the errors
\* list every partition whose metadata is unreadable or unparseable, and
\* every partition the errors list does not name has been processed.
C27_FailuresReported ==
    (lcall.op \in {"cleanup", "archive"}) =>
        \A p \in LifeParts :
            /\ BadSidecar(p) => p \in result.errors
            /\ (Dated(p) /\ Old(p) /\ p \notin result.errors) => ~lroot[p].dir

\* the part that holds: an unparseable created_time and a failing delete or
\* move are reported, and the other partitions are still processed
C27_ParseErrorsReported ==
    (lcall.op \in {"cleanup", "archive"}) =>
        \A p \in LifeParts :
            /\ (lpre[p].dir /\ lpre[p].meta.st = "ok"
                /\ lpre[p].meta.created_time = BadTime) => p \in result.errors
            /\ (Dated(p) /\ Old(p) /\ p \notin result.errors) => ~lroot[p].dir

\* C28: partition metadata.  A create or update that returns a dict has
\* written it to the sidecar with record_count the row count and
\* data_file_size the size of the partition's current data file; a get on a
\* partition with a readable sidecar returns exactly that sidecar and changes
\* nothing.
C28_MetadataMatchesData ==
    /\ (lcall.op \in {"create", "update"} /\ returned # EmptyDict) =>
           /\ lroot[lcall.name].meta = returned
           /\ returned.record_count = RowCount(lroot[lcall.name].data.rows)
           /\ returned.data_file_size = RowCount(lroot[lcall.name].data.rows) * BytesPerRow
    /\ (lcall.op = "get" /\ lpre[lcall.name].meta.st = "ok") =>
           (returned = lpre[lcall.name].meta /\ lroot = lpre)

\* a get has returned a sidecar that a call of day 1 had written for the two
\* rows of year=2023
C28_Witness ==
    /\ lcall.op = "get"
    /\ lpre[lcall.name].meta.st = "ok"
    /\ returned.last_modified = 1
    /\ returned.record_count = 2
    /\ returned.data_file_size = 2 * BytesPerRow


-----------------------------------------------------------------------------
(* Properties of performance monitoring *)

\* C29: bounded performance history.  A readable performance_history.json
\* holds at most 100 records, and they are the most recent measurements
\* handed to update_performance_history, in arrival order.
C29_BoundedHistory ==
    \A p \in LifeParts :
        (history[p].st = "ok") =>
            LET n == Len(arrivals[p])
                k == IF n > 100 THEN 100 ELSE n
            IN  /\ Len(history[p].entries) = k
                /\ \A i \in 1..k : history[p].entries[i] = arrivals[p][n - k + i]

\* more than 100 measurements have arrived and the file holds 100 of them
C29_Witness ==
    \E p \in LifeParts :
        /\ history[p].st = "ok"
        /\ Len(arrivals[p]) > 100
        /\ Len(history[p].entries) = 100

\* the partitions whose average query time over the window exceeded the
\* configured threshold when the last call was made
OverThreshold ==
    {p \in LifeParts :
        /\ lroot[p].dir
        /\ history[p].st = "ok"
        /\ LET recent == SelectSeq(history[p].entries,
                                   LAMBDA r : r.timestamp > pcall.at - TimeWindow)
           IN  /\ recent # <<>>
               /\ SumQueryTimes(recent) > alert_config.threshold_ms * Len(recent)}

\* C30: performance alerts.  check_performance_alerts returns one alert for
\* each partition whose average query time over its recent history exceeds
\* the configured threshold_ms when a configuration exists and is enabled,
\* and no alert otherwise.
C30_AlertsOverThreshold ==
    (pcall.op = "check") =>
        alerts = IF alert_config.st = "ok" /\ alert_config.enabled
                 THEN OverThreshold ELSE {}


-----------------------------------------------------------------------------
(* The partition strategy selector (src/partition_strategy_selector.py) *)

\* config.py: the data types of DATA_INTERFACE_CONFIG by their
\* storage.partition_granularity
YearTypes ==
    {"daily", "daily_basic", "moneyflow", "moneyflow_ths", "moneyflow_dc",
     "moneyflow_ind_dc", "moneyflow_mkt_dc", "moneyflow_cnt_ths", "moneyflow_ind_ths",
     "cyq_chips", "cyq_perf", "stk_factor", "stk_factor_pro"}

YearMonthTypes ==
    {"block_trade", "stk_surv", "suspend_d", "report_rc"}

NoneTypes ==
    {"forecast", "express", "top10_holders", "top10_floatholders", "pledge_stat",
     "repurchase", "share_float", "stk_holdertrade", "stk_managers", "stk_rewards",
     "income", "balancesheet", "cashflow", "fina_indicator", "stock_company",
     "namechange", "new_share", "dividend", "disclosure_date", "broker_recommend",
     "stock_basic", "trade_cal"}

\* by their update.frequency; every other data type is updated daily
WeeklyTypes ==
    {"top10_holders", "top10_floatholders", "stk_managers", "stk_rewards", "stock_basic",
     "trade_cal"}

MonthlyTypes ==
    {"stock_company", "namechange", "broker_recommend"}

DataTypes == YearTypes \cup YearMonthTypes \cup NoneTypes

\* a member of the Enum PartitionGranularity, and a plain string
Member(v) == [enum |-> TRUE, value |-> v]
Str(v) == [enum |-> FALSE, value |-> v]

DATA_INTERFACE_CONFIG ==
    [dt \in DataTypes |->
        [storage |-> [partition_granularity |->
                        IF dt \in YearTypes THEN Member("year")
                        ELSE IF dt \in YearMonthTypes THEN Member("year_month")
                        ELSE Member("none")],
         update |-> [frequency |->
                        IF dt \in WeeklyTypes THEN "weekly"
                        ELSE IF dt \in MonthlyTypes THEN "monthly"
                        ELSE "daily"]]]

\* what select_strategy is asked for: the configured types and one that is not
AskedTypes == DataTypes \cup {"invalid_data_type"}

EnumValue_keep(granularity) == granularity

\* if hasattr(granularity, 'value'): granularity = granularity.value
EnumValue(granularity) ==
    IF granularity.enum THEN Str(granularity.value) ELSE granularity

\* granularity == 'year': an Enum member is not equal to a string
StrEq(granularity, str) == ~granularity.enum /\ granularity.value = str

build_strategy_map ==
    [data_type \in DOMAIN DATA_INTERFACE_CONFIG |->
        LET granularity ==
                EnumValue(DATA_INTERFACE_CONFIG[data_type].storage.partition_granularity)
        IN  IF StrEq(granularity, "none") THEN "NONE"
            ELSE IF StrEq(granularity, "year") THEN "YEAR"
            ELSE IF StrEq(granularity, "year_month") THEN "YEAR_MONTH"
            ELSE "NONE"]

select_dynamic_strategy(data_type) ==
    IF data_type \notin DOMAIN DATA_INTERFACE_CONFIG
    THEN "NONE"
    ELSE LET frequency == DATA_INTERFACE_CONFIG[data_type].update.frequency
         IN  IF frequency = "daily" THEN "YEAR"
             ELSE IF frequency = "monthly" THEN "MERGE"
             ELSE IF frequency = "weekly" THEN "YEAR"
             ELSE "NONE"

SelectStrategy(data_type_strategy_map, data_type) ==
    IF data_type \in DOMAIN data_type_strategy_map
    THEN data_type_strategy_map[data_type]
    ELSE select_dynamic_strategy(data_type)

\* the first call makes the singleton, and its __init__ builds the map
get_partition_strategy_selector ==
    /\ ~partition_strategy_selector.made
    /\ partition_strategy_selector' =
          [made |-> TRUE, data_type_strategy_map |-> build_strategy_map]
    /\ UNCHANGED <<sinkVars, compVars, etlVars, taskVars, lifeVars, perfVars, selections>>

select_strategy ==
    /\ partition_strategy_selector.made
    /\ Len(selections) < MaxSelects
    /\ \E data_type \in AskedTypes :
          selections' = Append(selections,
              [data_type |-> data_type,
               strategy |-> SelectStrategy(partition_strategy_selector.data_type_strategy_map,
                                           data_type)])
    /\ UNCHANGED <<sinkVars, compVars, etlVars, taskVars, lifeVars, perfVars,
                   partition_strategy_selector>>

SelectInit ==
    /\ partition_granularity = "none"
    /\ base_exists = FALSE
    /\ fs = [d \in Dests |-> NoDir]
    /\ WriterIdle
    /\ CompIdle
    /\ EtlIdle
    /\ TasksIdle
    /\ MgmtIdle

SelectNext ==
    \/ get_partition_strategy_selector
    \/ select_strategy

\* the selector and its callers
SpecSelect == SelectInit /\ [][SelectNext]_vars

-----------------------------------------------------------------------------
(* Writes and compaction on one dataset *)

\* batches of single rows, every row with its year
StoreFrames ==
    {frame \in Frames("year") :
        /\ frame.cols
        /\ frame.rows # <<>>
        /\ \A i \in 1..Len(frame.rows) : frame.rows[i].key # Null /\ frame.rows[i].n = 1}

\* EtlRuntime._write_data of a yearly dataset: the sink call, made when no
\* compaction is running
StoreWrite ==
    /\ cpc = "idle"
    /\ enhanced_yearly_partitioned_sink
    /\ lazy_frame' \in StoreFrames

\* and the optimize_partition_storage(base_path, "auto") that follows it
StoreOptimize ==
    /\ pc = "idle"
    /\ calls > 0
    /\ optimize_partition_storage
    /\ strategy' = "auto"

\* a dataset that is empty before its first batch
StoreInit ==
    /\ SinkInit
    /\ partition_granularity = "year"

StoreNext ==
    \/ StoreWrite
    \/ PartitionLoop
    \/ WriteTmp
    \/ RenameBackup
    \/ RenameTmp
    \/ UnlinkBackup
    \/ Return
    \/ StoreOptimize
    \/ OptimizeMerge
    \/ QuietCompress
    \/ OptimizeRepartition
    \/ MergeWrite
    \/ QuietDelete
    \/ CompReturn
    \/ Tick

\* process_data call after process_data call on one yearly dataset, every
\* file operation succeeding
SpecStore == StoreInit /\ [][StoreNext]_vars

\* a sink call made while a compaction may be running
RaceWrite ==
    /\ calls < MaxRace
    /\ enhanced_yearly_partitioned_sink
    /\ lazy_frame' \in StoreFrames

\* a rename of the commit finds the partition directory removed
VanishedFails ==
    /\ StepFails
    /\ pc \in {"rename_backup", "rename_tmp", "unlink_backup"}
    /\ ~fs[cur].dir

\* a compaction started while a sink call may be running
RaceMergeSmall ==
    /\ runs < MaxRace
    /\ merge_small_partitions

RaceMergeToTarget ==
    /\ runs < MaxRace
    /\ merge_partitions_to_target

RaceNext ==
    \/ RaceWrite
    \/ PartitionLoop
    \/ WriteTmp
    \/ RenameBackup
    \/ RenameTmp
    \/ UnlinkBackup
    \/ VanishedFails
    \/ Handler
    \/ Return
    \/ RaceMergeSmall
    \/ RaceMergeToTarget
    \/ MergeWrite
    \/ QuietDelete
    \/ MergeToTargetLoop
    \/ QuietRemove
    \/ CompReturn

\* a writer and a compaction as two processes on one partitioned dataset;
\* no file operation fails unless the other process made it fail
SpecRace == CompInit /\ [][RaceNext]_vars

-----------------------------------------------------------------------------
(* Properties of the write modes *)

AdaptiveOps == {"atomic_partitioned_sink", "_streaming_partitioned_sink",
                "atomic_unpartitioned_sink"}

\* the partitions the collect-then-write path of atomic_partitioned_sink
\* leaves when no file operation fails: one per non-null key of the batch,
\* holding the rows of that key; every other directory as it was
CollectThenWrite(tree, frame, granularity) ==
    [d \in Dests |->
        IF /\ d[1] = granularity
           /\ d[2] \in UniqueKeys(frame.rows) \ {Null}
        THEN [dir |-> TRUE, data |-> Whole(FilterKey(frame.rows, d[2]))]
        ELSE [dir |-> tree[d].dir, data |-> tree[d].data]]

\* the call has returned or raised, and no file operation failed
EndedUnfaulted == pc \in {"done", "failed"} /\ failed_at = "none"

\* C31: write-mode equivalence.  A call that takes the streaming path ends
\* as the collect-then-write path ends on the same batch and the same
\* directory state: the same outcome, base_path and the same partitions with
\* the same rows; the unpartitioned sink stores the batch whichever way the
\* temp file was written.
C31_ModeEquivalence ==
    /\ (op \in {"atomic_partitioned_sink", "_streaming_partitioned_sink"} /\ EndedUnfaulted) =>
          IF lazy_frame.cols
          THEN /\ pc = "done"
               /\ base_exists
               /\ \A d \in Dests :
                    LET e == CollectThenWrite(pre, lazy_frame, partition_granularity)[d]
                    IN  fs[d].dir = e.dir /\ fs[d].data = e.data
          ELSE /\ pc = "failed"
               /\ base_exists = pre_base
               /\ fs = pre
    /\ (op = "atomic_unpartitioned_sink" /\ pc = "done") =>
          fs[Unpart].data = Whole(lazy_frame.rows)

\* the part of C31 that holds: whenever both paths return, and whenever
\* both raise, the partitions and their rows are those of the
\* collect-then-write path
C31_SamePartitions ==
    (op \in {"atomic_partitioned_sink", "_streaming_partitioned_sink"} /\ EndedUnfaulted) =>
        /\ pc = (IF lazy_frame.cols THEN "done" ELSE "failed")
        /\ \A d \in Dests :
             LET e == IF lazy_frame.cols
                      THEN CollectThenWrite(pre, lazy_frame, partition_granularity)[d]
                      ELSE pre[d]
             IN  fs[d].dir = e.dir /\ fs[d].data = e.data

\* C32: adaptive write mode selection.  The active threshold is 1,000,000
\* rows when memory utilization is above 85% and 5,000,000 rows otherwise,
\* and the call streams exactly when the row count of the batch is strictly
\* above the active threshold.
C32_AdaptiveMode ==
    (op \in AdaptiveOps) =>
        /\ dynamic_threshold = (IF memory_percent > 85 THEN 1000000 ELSE 5000000)
        /\ Streaming <=> RowCount(lazy_frame.rows) > dynamic_threshold
        /\ (op = "_streaming_partitioned_sink") <=>
             (partition_granularity # "none" /\ RowCount(lazy_frame.rows) > dynamic_threshold)

\* a batch of exactly 1,000,000 rows under memory pressure has been written
\* by the collect-then-write path
C32_Witness ==
    /\ op = "atomic_partitioned_sink"
    /\ pc = "done"
    /\ memory_percent = 90
    /\ RowCount(lazy_frame.rows) = 1000000
    /\ \E d \in OwnParts : RowCount(fs[d].data.rows) = 1000000

\* C34: temp file placement.  While the temp file of a commit exists it
\* lies in the directory of its destination file.
C34_TempBesideDestination ==
    (tmp # Absent) => tmp_dir = cur

-----------------------------------------------------------------------------
(* Properties of the strategy selector *)

\* the strategy that a declared partition_granularity stands for
DeclaredStrategy(data_type) ==
    LET declared == DATA_INTERFACE_CONFIG[data_type].storage.partition_granularity.value
    IN  CASE declared = "none" -> "NONE"
          [] declared = "year" -> "YEAR"
          [] declared = "year_month" -> "YEAR_MONTH"

\* C33: partition strategy selection.  Every select_strategy call returns one
\* of NONE, YEAR, YEAR_MONTH and MERGE; for a data type of
\* DATA_INTERFACE_CONFIG it returns the strategy of the declared granularity
\* (none gives NONE, year gives YEAR, year_month gives YEAR_MONTH), and for a
\* data type that is not configured it returns NONE.
C33_StrategySelection ==
    \A i \in 1..Len(selections) :
        LET call == selections[i]
        IN  /\ call.strategy \in {"NONE", "YEAR", "YEAR_MONTH", "MERGE"}
            /\ IF call.data_type \in DataTypes
               THEN call.strategy = DeclaredStrategy(call.data_type)
               ELSE call.strategy = "NONE"

\* a monthly partitioned type and an unknown type have been asked for
C33_Witness ==
    /\ Len(selections) = 2
    /\ selections[1] = [data_type |-> "block_trade", strategy |-> "YEAR_MONTH"]
    /\ selections[2] = [data_type |-> "invalid_data_type", strategy |-> "NONE"]

-----------------------------------------------------------------------------
(* Properties of compaction next to writes *)

\* the partitions the merge in progress removes once its output is written
SourcesRemoved ==
    IF cpc \in {"ms_write", "ms_delete"} THEN partitions_to_merge
    ELSE IF cpc \in {"mt_write", "mt_rm1", "mt_rm2"}
    THEN {partition_dirs[1], partition_dirs[2]}
    ELSE {}

\* C35: a merge never deletes its own output.  In merge_small_partitions
\* and merge_partitions_to_target the merged_<timestamp> directory that
\* receives the merged file is not one of the source partitions the same
\* run removes, whatever the clock reads, and when a run in which every
\* file operation succeeded has ended, its output is there.
C35_OutputNotASource ==
    /\ merged_dir \notin SourcesRemoved
    /\ (cpc \in {"done", "failed"} /\ merged_dir # NoDest) => Exists(fs[merged_dir].data)

\* rows with key k that a reader of base_path finds, whatever partition holds them
RowsUnderBase(tree, k) ==
    SumKeyCount(tree, {d \in check_partition_sizes(tree) : Readable(tree[d].data)}, k)

\* C36: no stale rows after compaction followed by a write.  When a batch
\* has been written after an earlier batch and a compaction, the rows that
\* can be read under base_path for a key of the batch are exactly the rows of
\* the batch with that key.
C36_NoStaleRows ==
    (pc = "done" /\ op = "enhanced_yearly_partitioned_sink") =>
        \A k \in UniqueKeys(lazy_frame.rows) :
            RowsUnderBase(fs, k) = KeyCount(lazy_frame.rows, k)

\* C37: compaction concurrent with a write loses no committed rows.  When a
\* sink call has returned normally and the compaction that ran next to it
\* has returned too, every row of the batch can be read from some partition
\* under base_path.
C37_CommittedRowsKept ==
    (pc = "done" /\ cpc = "done" /\ op = "enhanced_yearly_partitioned_sink") =>
        \A k \in UniqueKeys(lazy_frame.rows) :
            RowsUnderBase(fs, k) >= KeyCount(lazy_frame.rows, k)

-----------------------------------------------------------------------------
(* Properties of the lifecycle directories, the sidecar and the task queues *)

\* C38: lifecycle operations act only on partitions.  A cleanup or archive
\* call leaves every backup_<timestamp> directory that stood before it as it
\* was, contents and sidecar, and leaves the archived directory standing
\* with the sidecar state it had.
C38_OnlyPartitionsTouched ==
    (lcall.op \in {"cleanup", "archive"}) =>
        /\ \A b \in BackupNames : lpre[b].dir => lroot[b] = lpre[b]
        /\ apre.dir => (archived.dir /\ archived.meta = apre.meta)

\* C39: created_time is stable.  A create, update or get call on a partition
\* that has a sidecar, given no metadata or metadata with the stored
\* created_time, leaves a sidecar with the created_time that was stored.
C39_CreatedTimeStable ==
    (/\ lcall.op \in {"create", "update", "get"}
     /\ lpre[lcall.name].meta.st = "ok"
     /\ lroot[lcall.name].meta.st = "ok"
     /\ lcall.metadata.has =>
            lcall.metadata.created_time = lpre[lcall.name].meta.created_time) =>
        lroot[lcall.name].meta.created_time = lpre[lcall.name].meta.created_time

\* C40: task liveness.  With a fair pool and terminating task functions,
\* from some point on no interface queue holds a task: every task put on a
\* queue is taken in the end.
C40_TasksEventuallyTaken ==
    <>[](\A i \in Interfaces : interface_queues[i] = 0)

====
